---- MODULE Spec2Model ----
(***************************************************************************)
(* A model of the bound/threshold scripts of the RN repository.            *)
(*                                                                         *)
(* Every script is one "program" of the model: Init picks the program and  *)
(* its arguments, and the actions are the steps of that program.           *)
(*                                                                         *)
(* Python floats are modelled in fixed point.  The sum engine              *)
(* (compute_C_right.py) works in units of 1e-8 (Unit); the threshold,      *)
(* margin and optimizer code works in units of 1e-6 (Scale).  Division     *)
(* truncates, so a value of the model is within a few units of the float   *)
(* the script computes.                                                    *)
(***************************************************************************)
EXTENDS Integers, Sequences, FiniteSets, TLC

\* ------------------------------------------------------------------ bounds
\* Largest cutoff whose sieve is unrolled.
MaxP == 30
\* Longest list of cutoffs given to verify_computation.
MaxRuns == 2

\* ------------------------------------------------------------------ units
Unit == 10000 * 10000

\* ------------------------------------------------------------ primes_upto
\* int(n**0.5)
Isqrt(n) == CHOOSE r \in 0..n : r * r <= n /\ (r + 1) * (r + 1) > n

\* A range that stops one short: the last candidate p is never tried.
SieveStopShort(n) == Isqrt(n) - 1

\* range(2, int(n**0.5) + 1): the last p of the loop
SieveStop(n) == Isqrt(n)

\* sieve[p*p:n+1:p] = zeros
Strike(sieve, p, n) ==
    [i \in 0..n |-> IF i >= p * p /\ (i - p * p) % p = 0 THEN 0 ELSE sieve[i]]

RECURSIVE SieveLoop(_, _, _)
SieveLoop(sieve, p, n) ==
    IF p > SieveStop(n) THEN sieve
    ELSE SieveLoop(IF sieve[p] = 1 THEN Strike(sieve, p, n) ELSE sieve, p + 1, n)

primes_upto(n) ==
    IF n < 2 THEN << >>
    ELSE LET sieve0 == [i \in 0..n |-> IF i < 2 THEN 0 ELSE 1]
             sieve  == SieveLoop(sieve0, 2, n)
         IN  SelectSeq([i \in 1..(n - 1) |-> i + 1], LAMBDA i : sieve[i] = 1)

\* ----------------------------------------------------------------- math.log
\* ln p in Units for the primes the model meets; ln n of any other n is the
\* sum over its prime factors.
LnPrime ==
    [p \in {2, 3, 5, 7, 11, 13, 17, 19, 23, 29, 31, 37} |->
        CASE p = 2  -> 69314718
          [] p = 3  -> 109861229
          [] p = 5  -> 160943791
          [] p = 7  -> 194591015
          [] p = 11 -> 239789527
          [] p = 13 -> 256494936
          [] p = 17 -> 283321334
          [] p = 19 -> 294443898
          [] p = 23 -> 313549422
          [] p = 29 -> 336729583
          [] p = 31 -> 343398720
          [] p = 37 -> 361091791]

RECURSIVE Ln(_)
Ln(n) ==
    IF n = 1 THEN 0
    ELSE LET p == CHOOSE q \in DOMAIN LnPrime : n % q = 0
         IN  LnPrime[p] + Ln(n \div p)

\* math.log raises ValueError (math domain error) for an argument <= 0
LogRaises(n) == n <= 0

RECURSIVE Pow(_, _)
Pow(b, e) == IF e = 0 THEN 1 ELSE b * Pow(b, e - 1)

\* ---------------------------------------------------- compute_partial_sum
\* A cutoff far beyond what the sieve can be unrolled for, and the value the
\* loop of compute_partial_sum returns for it (0.5699609597639571).
LargeP == 3 * 10000000
SumAtLargeP == 56996095

\* for p in primes: S += math.log(p) / (p**2 - 1)
RECURSIVE PrimeSum(_, _)
PrimeSum(primes, i) ==
    IF i > Len(primes) THEN 0
    ELSE Ln(primes[i]) \div (primes[i] * primes[i] - 1) + PrimeSum(primes, i + 1)

\* k = 2; while p**k <= P: S += math.log(p) / p**(2*k); k += 1
RECURSIVE PowerLoop(_, _, _)
PowerLoop(p, k, cutoff) ==
    IF Pow(p, k) > cutoff THEN 0
    ELSE Ln(p) \div Pow(p, 2 * k) + PowerLoop(p, k + 1, cutoff)

\* for p in primes: if p**2 > P: break; ...
RECURSIVE PowerSum(_, _, _)
PowerSum(primes, i, cutoff) ==
    IF i > Len(primes) \/ primes[i] * primes[i] > cutoff THEN 0
    ELSE PowerLoop(primes[i], 2, cutoff) + PowerSum(primes, i + 1, cutoff)

compute_partial_sum(cutoff, include_prime_powers) ==
    IF cutoff = LargeP THEN SumAtLargeP
    ELSE LET primes == primes_upto(cutoff)
         IN  PrimeSum(primes, 1)
               + (IF include_prime_powers THEN PowerSum(primes, 1, cutoff) ELSE 0)

\* The default of the parameter include_prime_powers of compute_partial_sum.
PartialSumDefault == TRUE

\* ----------------------------------------------------- compute_tail_bound
\* A tail "bound" that keeps only log P + 1: neither the factor 4/3 nor the
\* division by P.
TailNoDivision(cutoff) == Ln(cutoff) + Unit

\* (4.0/3.0) * (math.log(P) + 1.0) / P; the division by P is done first to
\* keep the intermediate value small.
compute_tail_bound(cutoff) == (4 * ((Ln(cutoff) + Unit) \div cutoff)) \div 3

\* ------------------------------------------------- compute_C_right_bounds
\* The default of the parameter include_prime_powers of compute_C_right_bounds.
BoundsDefault == FALSE

\* Bounds whose upper end forgets the tail.
BoundsNoTail(cutoff, include_prime_powers) ==
    LET S == compute_partial_sum(cutoff, include_prime_powers)
    IN  <<S, S, S, compute_tail_bound(cutoff)>>

\* return S, S + tail, S, tail
compute_C_right_bounds(cutoff, include_prime_powers) ==
    LET S    == compute_partial_sum(cutoff, include_prime_powers)
        tail == compute_tail_bound(cutoff)
    IN  <<S, S + tail, S, tail>>

\* compute_C_right_bounds raises where math.log does
BoundsRaise(cutoff) == LogRaises(cutoff)

\* 0.5699618136104756, in Units
approx == 56996181

\* ------------------------------------------------- float arithmetic, 1e-6
Scale == 1000 * 1000

Abs(x) == IF x < 0 THEN -x ELSE x

Sign(x) == IF x < 0 THEN -1 ELSE 1

\* x * y of two values >= 0, by limbs of three digits so that no intermediate
\* product exceeds 32 bits
MulAbs(a, b) ==
    LET a2 == a \div Scale
        a1 == (a \div 1000) % 1000
        a0 == a % 1000
        b2 == b \div Scale
        b1 == (b \div 1000) % 1000
        b0 == b % 1000
    IN  a2 * b2 * Scale
          + (a2 * b1 + a1 * b2) * 1000
          + (a2 * b0 + a1 * b1 + a0 * b2)
          + ((a1 * b0 + a0 * b1) + (a0 * b0) \div 1000) \div 1000

\* x * y
FMul(a, b) == Sign(a) * Sign(b) * MulAbs(Abs(a), Abs(b))

\* the six decimals of r / b, r < b
RECURSIVE DivDigits(_, _, _)
DivDigits(r, b, k) ==
    IF k = 0 THEN 0
    ELSE ((r * 10) \div b) * Pow(10, k - 1) + DivDigits((r * 10) % b, b, k - 1)

\* x / y, y # 0
FDiv(a, b) ==
    Sign(a) * Sign(b)
      * ((Abs(a) \div Abs(b)) * Scale + DivDigits(Abs(a) % Abs(b), Abs(b), 6))

\* an integer or decimal literal n/d of the source
Lit(n, d) == (n * Scale) \div d

\* math.pi, np.pi
PI == 3141593

\* np.log(T) for T = 1e12, the default height
LogT == 27631021

\* float('inf')
Inf == 2147483647

\* np.linspace(start, stop, num): the points with index 0 .. num-1
Linspace(start, stop, num) ==
    [i \in 0..(num - 1) |->
        IF i = num - 1 THEN stop ELSE start + (i * (stop - start)) \div (num - 1)]

\* ---------------------------------------------------------- threshold_T0
\* SUB_WEYL_EXPONENTS, in the order of the dict
T0_MethodNames == <<"current", "huxley", "bourgain", "hypothetical">>

T0_SUB_WEYL_EXPONENTS ==
    [m \in {"current", "huxley", "bourgain", "hypothetical"} |->
        CASE m = "current"      -> FDiv(27 * Scale, 164 * Scale)
          [] m = "huxley"       -> FDiv(32 * Scale, 205 * Scale)
          [] m = "bourgain"     -> FDiv(13 * Scale, 84 * Scale)
          [] m = "hypothetical" -> FDiv(1 * Scale, 8 * Scale)]

\* alpha_star = sub_weyl_exp + R0
T0_alpha_star(R0, sub_weyl_exp) == sub_weyl_exp + R0

\* return (8.0 / R0) * alpha_star
T0_compute_C_thin_star(R0, sub_weyl_exp) ==
    FMul(FDiv(8 * Scale, R0), T0_alpha_star(R0, sub_weyl_exp))

\* A log_T0 that forgets the window factor c.
LogT0_NoC(c, kappa, C_right, C_thin) ==
    FMul(FDiv(2 * Scale, PI), C_right + FMul(kappa, C_thin))

\* A log_T0 that forgets the factor 1/pi.
LogT0_NoPi(c, kappa, C_right, C_thin) ==
    FMul(2 * c, C_right + FMul(kappa, C_thin))

\* return (2.0 * c / math.pi) * (C_right + kappa * C_thin)
T0_compute_log_T0(c, kappa, C_right, C_thin) ==
    FMul(FDiv(2 * c, PI), C_right + FMul(kappa, C_thin))

\* ---------------------------------------------------- measure_Cthin_star
\* return sub_weyl_exp + R0
M_compute_boundary_growth_slope(R0, sub_weyl_exp) == sub_weyl_exp + R0

\* A C_thin_star that forgets the slope.
M_C_thin_NoSlope(R0, alpha_star) == FDiv(8 * Scale, R0)

\* return (8.0 / R0) * alpha_star
M_compute_C_thin_star(R0, alpha_star) == FMul(FDiv(8 * Scale, R0), alpha_star)

\* analyze_margin: log_T0 = (2.0 * args.c / np.pi) * (C_right + args.kappa * C_thin_star)
M_log_T0(c, kappa, C_right, C_thin_star) ==
    FMul(FDiv(2 * c, PI), C_right + FMul(kappa, C_thin_star))

\* --------------------------------------------------- analyze_improvements
\* compute_threshold(c, kappa, R0, sub_weyl_exp, C_right): (alpha_star,
\* C_thin_star, log_T0); the function returns the last two
A_compute_threshold(c, kappa, R0, sub_weyl_exp, C_right) ==
    LET alpha_star  == sub_weyl_exp + R0
        C_thin_star == FMul(FDiv(8 * Scale, R0), alpha_star)
        log_T0      == FMul(FDiv(2 * c, PI), C_right + FMul(kappa, C_thin_star))
    IN  <<alpha_star, C_thin_star, log_T0>>

\* ------------------------------------------------------ test_improvements
\* improved_measure_Cthin: alpha, C_thin and log_T0
I_improved_measure_Cthin(c, kappa, R0, sub_weyl_exp, C_right) ==
    LET alpha  == sub_weyl_exp + R0
        C_thin == FMul(FDiv(8 * Scale, R0), alpha)
        log_T0 == FMul(FDiv(2 * c, PI), C_right + FMul(kappa, C_thin))
    IN  <<alpha, C_thin, log_T0>>

\* --------------------------------------------------------------- optimize
\* the defaults of compute_metrics: sub_weyl_exp=27/164, C_right=0.569961
O_sub_weyl_exp == FDiv(27 * Scale, 164 * Scale)
O_C_right == 569961

\* alpha = sub_weyl_exp + R0
O_alpha(R0, sub_weyl_exp) == sub_weyl_exp + R0

\* C_thin = (8.0 / R0) * alpha
O_C_thin(R0, sub_weyl_exp) == FMul(FDiv(8 * Scale, R0), O_alpha(R0, sub_weyl_exp))

\* A log_T0 that forgets the strip factor kappa.
O_log_T0_NoKappa(c, kappa, C_right, C_thin) ==
    FMul(FDiv(2 * c, PI), C_right + C_thin)

\* log_T0 = (2.0 * c / np.pi) * (C_right + kappa * C_thin)
O_log_T0(c, kappa, C_right, C_thin) ==
    FMul(FDiv(2 * c, PI), C_right + FMul(kappa, C_thin))

\* compute_metrics(c, kappa, R0, sub_weyl_exp, C_right) at T = 1e12: the Result
compute_metrics(c, kappa, R0, sub_weyl_exp, C_right) ==
    LET h              == FDiv(c, LogT)
        delta          == FDiv(kappa, LogT)
        alpha          == O_alpha(R0, sub_weyl_exp)
        C_thin         == O_C_thin(R0, sub_weyl_exp)
        scale          == FMul(alpha, LogT)
        avg_factor     == FMul(Lit(5, 10), Scale - FMul(Lit(2, 10), kappa))
        avg_proxy      == FMul(FMul(scale, avg_factor), delta)
        rhs            == FMul(FMul(FMul(C_thin, h), delta), LogT)
        margin         == rhs - avg_proxy
        margin_percent == FMul(FDiv(margin, rhs), 100 * Scale)
        log_T0         == O_log_T0(c, kappa, C_right, C_thin)
    IN  [c |-> c, kappa |-> kappa, R0 |-> R0, C_thin |-> C_thin,
         margin_percent |-> margin_percent, log_T0 |-> log_T0,
         T0 |-> <<"exp", log_T0>>,
         status |-> IF margin_percent > 20 * Scale THEN "OK" ELSE "FAIL"]

\* grid_search: c_values, kappa_values, R0_values
GridPoints == 20
GS_c_values == Linspace(Lit(20, 100), Lit(45, 100), GridPoints)
GS_kappa_values == Linspace(Lit(3, 10), Lit(15, 10), GridPoints)
GS_R0_values == <<Lit(8, 100), Lit(10, 100), Lit(125, 1000), Lit(15, 100)>>

\* the tuple of one pass of "for R0 .. for c .. for kappa", idx = <<iR0, ic, ikappa>>
GS_Tuple(idx) ==
    [c |-> GS_c_values[idx[2]], kappa |-> GS_kappa_values[idx[3]],
     R0 |-> GS_R0_values[idx[1] + 1]]

\* r = compute_metrics(c, kappa, R0)
GS_Metrics(idx) ==
    LET t == GS_Tuple(idx)
    IN  compute_metrics(t.c, t.kappa, t.R0, O_sub_weyl_exp, O_C_right)

GS_Sizes == <<Len(GS_R0_values), GridPoints, GridPoints>>

\* An update that forgets the margin constraint.
GS_ImprovesAnyMargin(r, min_margin, best_log_T0) == r.log_T0 < best_log_T0

\* if r.margin_percent >= min_margin:
GS_Feasible(r, min_margin) == r.margin_percent >= min_margin

\* if r.margin_percent >= min_margin: ... if r.log_T0 < best_log_T0:
GS_Improves(r, min_margin, best_log_T0) ==
    GS_Feasible(r, min_margin) /\ r.log_T0 < best_log_T0

\* A loop that ends with the first pass of its innermost "for".
AdvanceInnermostOnly(idx, sizes, k) ==
    IF idx[k] + 1 < sizes[k] THEN [idx EXCEPT ![k] = idx[k] + 1] ELSE << >>

\* The next index of a nest of loops (the last loop innermost), or << >> after
\* the last pass.
RECURSIVE Advance(_, _, _)
Advance(idx, sizes, k) ==
    IF k = 0 THEN << >>
    ELSE IF idx[k] + 1 < sizes[k] THEN [idx EXCEPT ![k] = idx[k] + 1]
    ELSE Advance([idx EXCEPT ![k] = 0], sizes, k - 1)

\* a stable sort of s by log_T0, the keys lying in lo..hi: the records of the
\* lower half of the key range, in their order, then those of the upper half
RECURSIVE SortRange(_, _, _)
SortRange(s, lo, hi) ==
    IF Len(s) <= 1 \/ lo >= hi THEN s
    ELSE LET mid == lo + (hi - lo) \div 2
         IN  SortRange(SelectSeq(s, LAMBDA r : r.log_T0 <= mid), lo, mid)
               \o SortRange(SelectSeq(s, LAMBDA r : r.log_T0 > mid), mid + 1, hi)

\* A list that is left in the order of the scan.
KeepScanOrder(s) == s

\* all_valid.sort(key=lambda r: r.log_T0): a stable sort
SortByLogT0(s) ==
    IF s = << >> THEN s
    ELSE LET keys == {s[i].log_T0 : i \in 1..Len(s)}
             lo   == CHOOSE k \in keys : \A j \in keys : k <= j
             hi   == CHOOSE k \in keys : \A j \in keys : k >= j
         IN  SortRange(s, lo, hi)

\* optimize_parameters: c_values, kappa_values, R0_values
OP_c_values == Linspace(Lit(15, 100), Lit(40, 100), GridPoints)
OP_kappa_values == Linspace(Lit(5, 10), Lit(30, 10), GridPoints)
OP_R0_values == Linspace(Lit(5, 100), Lit(20, 100), GridPoints)

OP_Sizes == <<Len(T0_MethodNames), GridPoints, GridPoints, GridPoints>>

\* the tuple of one pass of "for c .. for kappa .. for R0" of a method,
\* idx = <<imethod, ic, ikappa, iR0>>
OP_Tuple(idx) ==
    [c |-> OP_c_values[idx[2]], kappa |-> OP_kappa_values[idx[3]],
     R0 |-> OP_R0_values[idx[4]]]

\* optimize_parameters: C_thin, log_T0 and margin_est of one pass
OP_Metrics(idx, C_right) ==
    LET t            == OP_Tuple(idx)
        sub_weyl_exp == T0_SUB_WEYL_EXPONENTS[T0_MethodNames[idx[1] + 1]]
        C_thin       == T0_compute_C_thin_star(t.R0, sub_weyl_exp)
        log_T0       == T0_compute_log_T0(t.c, t.kappa, C_right, C_thin)
        delta        == FDiv(t.kappa, 30 * Scale)
        avg_factor   == Lit(58, 100)
                          - FDiv(FMul(Lit(8, 100), delta), delta + Lit(1, 10))
        margin_est   == Scale - avg_factor
    IN  [c |-> t.c, kappa |-> t.kappa, R0 |-> t.R0, log_T0 |-> log_T0,
         margin_est |-> margin_est]

\* An update that lets an equal log_T0 replace the best.
OP_ImprovesOrTies(m, min_margin, best_log_T0) ==
    m.margin_est >= min_margin /\ m.log_T0 <= best_log_T0

\* A margin test that takes the window height off the margin.
OP_FeasibleUnderWindow(m, min_margin) ==
    m.margin_est - FDiv(m.c, 30 * Scale) >= min_margin

\* margin_est >= min_margin
OP_Feasible(m, min_margin) == m.margin_est >= min_margin

\* if margin_est >= min_margin and log_T0 < best_log_T0:
OP_Improves(m, min_margin, best_log_T0) ==
    OP_Feasible(m, min_margin) /\ m.log_T0 < best_log_T0


\* ------------------------------------------------------------------ state
VARIABLES
    prog,            \* the entry point that runs
    pc,              \* its position
    P,               \* the cutoff: n of primes_upto, P elsewhere, args.P of main
    ipp,             \* include_prime_powers as passed: "default", "True", "False"
    method,          \* args.method of compute_C_right.main
    HAS_MPMATH,      \* whether the import of mpmath succeeded
    no_prime_powers, \* args.no_prime_powers of compute_C_right.main
    ret,             \* what a called function returned
    bounds,          \* (lower, upper, S, tail) once compute_C_right_bounds returned
    console,         \* the lines printed that the model follows
    results,         \* the results dict of main
    saved,           \* the JSON file written by save_results
    exit_code,       \* -1 while running, 0 on a normal end, 1 on an uncaught exception
    P_values,        \* the cutoffs of verify_computation
    vresults,        \* its results list
    min_margin,      \* the min_margin argument of an optimizer
    show_plot,       \* the show_plot argument of grid_search
    C_right,         \* the C_right argument of optimize_parameters
    idx,             \* the loop indices of the scan, outermost first
    best,            \* best (grid_search) or best_params (optimize_parameters)
    best_log_T0,     \* the smallest log_T0 retained so far
    all_valid,       \* grid_search: the feasible results, in scan order
    best_results,    \* optimize_parameters: method -> its best
    plotted,         \* grid_search: whether plot_optimization_results ran
    dc_args,         \* the parameters given to every module's formulas
    derived,         \* module -> (alpha_star, C_thin_star, log_T0) it computed
    args,            \* the argument namespace of threshold_T0 / measure_Cthin_star
    payload,         \* the results dict a script has built
    rows,            \* optimize: the Results of analyze_current / test_parameters
    ok,              \* smoke.py: whether every command so far returned 0
    executed,        \* the commands a runner has started, in order
    table            \* compare_methods: the lines of the two summaries

sumVars == <<P, ipp, method, HAS_MPMATH, no_prime_powers, ret, bounds, console,
             results, saved, exit_code, P_values, vresults>>

optVars == <<min_margin, show_plot, C_right, idx, best, best_log_T0, all_valid,
             best_results, plotted>>

dcVars == <<dc_args, derived>>

anaVars == <<args, payload, rows>>

runVars == <<ok, executed, table>>

vars == <<prog, pc, sumVars, optVars, dcVars, anaVars, runVars>>

None == << >>

\* the arguments of compute_C_right.py, while another script runs
SumArgsIdle ==
    /\ P = 0 /\ ipp = "default" /\ method = "sieve" /\ HAS_MPMATH = FALSE
    /\ no_prime_powers = FALSE /\ P_values = << >>

OptIdle ==
    /\ min_margin = 0 /\ show_plot = FALSE /\ C_right = 0 /\ idx = << >>
    /\ best = None /\ best_log_T0 = Inf /\ all_valid = << >>
    /\ best_results = << >> /\ plotted = FALSE

DcIdle == dc_args = << >> /\ derived = << >>

AnaIdle == args = None /\ payload = None /\ rows = << >>

RunIdle == ok = TRUE /\ executed = << >> /\ table = << >>

SumIdle ==
    /\ ret = None /\ bounds = None /\ console = << >>
    /\ results = None /\ saved = None /\ exit_code = -1
    /\ vresults = << >>

\* Strictly increasing lists of cutoffs ("Convergence with increasing P").
Increasing(s) == \A i \in 1..(Len(s) - 1) : s[i] < s[i + 1]

CutoffLists ==
    {s \in UNION {[1..k -> 1..MaxP] : k \in 1..MaxRuns} : Increasing(s)}

InitPrimesUpto ==
    /\ prog = "primes_upto" /\ pc = "call"
    /\ P \in -1..MaxP
    /\ ipp = "default" /\ method = "sieve" /\ HAS_MPMATH = FALSE
    /\ no_prime_powers = FALSE /\ P_values = << >>
    /\ SumIdle /\ OptIdle /\ DcIdle /\ RunIdle /\ AnaIdle

InitPartialSum ==
    /\ prog = "compute_partial_sum" /\ pc = "call"
    /\ P \in -1..MaxP
    /\ ipp \in {"default", "True", "False"}
    /\ method = "sieve" /\ HAS_MPMATH = FALSE
    /\ no_prime_powers = FALSE /\ P_values = << >>
    /\ SumIdle /\ OptIdle /\ DcIdle /\ RunIdle /\ AnaIdle

InitVerify ==
    /\ prog = "verify_computation" /\ pc = "loop"
    /\ P_values \in CutoffLists
    /\ P = 0 /\ ipp = "default" /\ method = "sieve" /\ HAS_MPMATH \in BOOLEAN
    /\ no_prime_powers = FALSE
    /\ SumIdle /\ OptIdle /\ DcIdle /\ RunIdle /\ AnaIdle

InitMain ==
    /\ prog = "compute_C_right" /\ pc = "start"
    /\ P \in (-1..MaxP) \cup {LargeP}
    /\ method \in {"sieve", "mpmath"}
    /\ HAS_MPMATH \in BOOLEAN
    /\ no_prime_powers \in BOOLEAN
    /\ ipp = "False" /\ P_values = << >>
    /\ SumIdle /\ OptIdle /\ DcIdle /\ RunIdle /\ AnaIdle

\* ---------------------------------------------------------------- actions
\* primes_upto(n)
PrimesUpto ==
    /\ prog = "primes_upto" /\ pc = "call"
    /\ ret' = primes_upto(P)
    /\ pc' = "returned"
    /\ UNCHANGED <<optVars, dcVars, runVars, anaVars>>
    /\ UNCHANGED <<prog, P, ipp, method, HAS_MPMATH, no_prime_powers, bounds,
                   console, results, saved, exit_code, P_values, vresults>>

\* compute_partial_sum(P) and compute_partial_sum(P, include_prime_powers)
PartialSum ==
    /\ prog = "compute_partial_sum" /\ pc = "call"
    /\ ret' = <<compute_partial_sum(P,
                  IF ipp = "default" THEN PartialSumDefault ELSE ipp = "True")>>
    /\ pc' = "returned"
    /\ UNCHANGED <<optVars, dcVars, runVars, anaVars>>
    /\ UNCHANGED <<prog, P, ipp, method, HAS_MPMATH, no_prime_powers, bounds,
                   console, results, saved, exit_code, P_values, vresults>>

\* verify_computation: one pass of "for P in P_values"
VerifyStep ==
    /\ prog = "verify_computation" /\ pc = "loop"
    /\ Len(vresults) < Len(P_values)
    /\ LET cutoff == P_values[Len(vresults) + 1]
           b      == compute_C_right_bounds(cutoff, BoundsDefault)
       IN  /\ P' = cutoff
           /\ bounds' = b
           /\ vresults' = Append(vresults,
                 [P |-> cutoff, lower |-> b[1], upper |-> b[2], width |-> b[2] - b[1]])
    /\ UNCHANGED <<optVars, dcVars, runVars, anaVars>>
    /\ UNCHANGED <<prog, pc, ipp, method, HAS_MPMATH, no_prime_powers, ret,
                   console, results, saved, exit_code, P_values>>

\* verify_computation: after the loop, the convergence rate, and the return
VerifyReturn ==
    /\ prog = "verify_computation" /\ pc = "loop"
    /\ Len(vresults) = Len(P_values)
    /\ console' = IF Len(vresults) >= 2 THEN <<"Convergence rate">> ELSE << >>
    /\ ret' = vresults
    /\ pc' = "returned"
    /\ UNCHANGED <<optVars, dcVars, runVars, anaVars>>
    /\ UNCHANGED <<prog, P, ipp, method, HAS_MPMATH, no_prime_powers, bounds,
                   results, saved, exit_code, P_values, vresults>>

\* main: include_powers = False; compute_C_right_bounds(args.P, include_powers);
\* results = {...}
MainBounds ==
    /\ prog = "compute_C_right" /\ pc = "start"
    /\ IF BoundsRaise(P)
       THEN /\ pc' = "crashed"
            /\ exit_code' = 1
            /\ console' = Append(console, "ValueError: math domain error")
            /\ UNCHANGED <<bounds, results>>
       ELSE LET b == compute_C_right_bounds(P, FALSE)
            IN  /\ bounds' = b
                /\ results' = <<[P |-> P, method |-> method,
                                 include_prime_powers |-> FALSE,
                                 partial_sum |-> b[3], tail_bound |-> b[4],
                                 lower_bound |-> b[1], upper_bound |-> b[2],
                                 interval_width |-> b[2] - b[1],
                                 numerical_approximation |-> approx,
                                 high_precision |-> None]>>
                /\ pc' = "computed"
                /\ UNCHANGED <<exit_code, console>>
    /\ UNCHANGED <<optVars, dcVars, runVars, anaVars>>
    /\ UNCHANGED <<prog, P, ipp, method, HAS_MPMATH, no_prime_powers, ret,
                   saved, P_values, vresults>>

\* main: if lower <= approx <= upper: print [OK] else: print [FAIL] WARNING
MainCheck ==
    /\ prog = "compute_C_right" /\ pc = "computed"
    /\ console' = Append(console,
                    IF bounds[1] <= approx /\ approx <= bounds[2]
                    THEN "[OK] within bounds"
                    ELSE "[FAIL] WARNING outside bounds")
    /\ pc' = "checked"
    /\ UNCHANGED <<optVars, dcVars, runVars, anaVars>>
    /\ UNCHANGED <<prog, P, ipp, method, HAS_MPMATH, no_prime_powers, ret,
                   bounds, results, saved, exit_code, P_values, vresults>>

\* main: if args.method == 'mpmath' and HAS_MPMATH: results['high_precision'] = ...
MainHighPrecision ==
    /\ prog = "compute_C_right" /\ pc = "checked"
    /\ results' = IF method = "mpmath" /\ HAS_MPMATH
                  THEN <<[results[1] EXCEPT !.high_precision = <<"C_right_hp">>]>>
                  ELSE results
    /\ pc' = "crosschecked"
    /\ UNCHANGED <<optVars, dcVars, runVars, anaVars>>
    /\ UNCHANGED <<prog, P, ipp, method, HAS_MPMATH, no_prime_powers, ret,
                   bounds, console, saved, exit_code, P_values, vresults>>

\* main: save_results(results, args); the summary; the normal end
MainSave ==
    /\ prog = "compute_C_right" /\ pc = "crosschecked"
    /\ saved' = results
    /\ console' = Append(console, "SUMMARY")
    /\ exit_code' = 0
    /\ pc' = "done"
    /\ UNCHANGED <<optVars, dcVars, runVars, anaVars>>
    /\ UNCHANGED <<prog, P, ipp, method, HAS_MPMATH, no_prime_powers, ret,
                   bounds, results, P_values, vresults>>

\* ------------------------------------------------------ optimizer actions
\* The margins asked of grid_search: 20, the default 25, and 80.
GS_MinMargins == {Lit(20, 1), Lit(25, 1), Lit(80, 1)}

\* The margins asked of optimize_parameters: the default 0.25, 0.45 and 0.5.
OP_MinMargins == {Lit(25, 100), Lit(45, 100), Lit(50, 100)}

\* A --C_right for which log_T0 is 0 at the smallest kappa and the largest R0
\* of the grid, whatever c is (method current).
TieC_right ==
    -FMul(OP_kappa_values[0],
          T0_compute_C_thin_star(OP_R0_values[GridPoints - 1],
                                 T0_SUB_WEYL_EXPONENTS["current"]))

InitGridSearch ==
    /\ prog = "grid_search" /\ pc = "scan"
    /\ min_margin \in GS_MinMargins
    /\ show_plot \in BOOLEAN
    /\ C_right = O_C_right
    /\ idx = <<0, 0, 0>>
    /\ best = None /\ best_log_T0 = Inf /\ all_valid = << >>
    /\ best_results = << >> /\ plotted = FALSE
    /\ SumArgsIdle /\ SumIdle /\ DcIdle /\ AnaIdle /\ RunIdle

InitOptimizeParameters ==
    /\ prog = "optimize_parameters" /\ pc = "scan"
    /\ min_margin \in OP_MinMargins
    /\ C_right \in {O_C_right, TieC_right}
    /\ show_plot = FALSE
    /\ idx = <<0, 0, 0, 0>>
    /\ best = None /\ best_log_T0 = Inf /\ all_valid = << >>
    /\ best_results = << >> /\ plotted = FALSE
    /\ SumArgsIdle /\ SumIdle /\ DcIdle /\ AnaIdle /\ RunIdle

\* grid_search: one pass of the innermost loop
GridStep ==
    /\ prog = "grid_search" /\ pc = "scan"
    /\ LET r   == GS_Metrics(idx)
           nxt == Advance(idx, GS_Sizes, 3)
       IN  /\ all_valid' = IF GS_Feasible(r, min_margin)
                           THEN Append(all_valid, r) ELSE all_valid
           /\ IF GS_Improves(r, min_margin, best_log_T0)
              THEN best' = <<r>> /\ best_log_T0' = r.log_T0
              ELSE UNCHANGED <<best, best_log_T0>>
           /\ IF nxt = << >>
              THEN pc' = "report" /\ idx' = idx
              ELSE pc' = pc /\ idx' = nxt
    /\ UNCHANGED <<prog, sumVars, dcVars, runVars, anaVars, min_margin, show_plot, C_right,
                   best_results, plotted>>

\* grid_search: after the loops, the report, the sort and the plot
GridReport ==
    /\ prog = "grid_search" /\ pc = "report"
    /\ IF best # None
       THEN /\ console' = console \o <<"Best parameters found",
                                       "Top 5 configurations">>
            /\ all_valid' = SortByLogT0(all_valid)
       ELSE /\ console' = Append(console, "No valid parameters found")
            /\ all_valid' = all_valid
    /\ plotted' = (show_plot /\ all_valid # << >>)
    /\ pc' = "returned"
    /\ UNCHANGED <<prog, P, ipp, method, HAS_MPMATH, no_prime_powers, ret,
                   bounds, results, saved, exit_code, P_values, vresults,
                   dcVars, runVars, anaVars, min_margin, show_plot, C_right, idx, best,
                   best_log_T0, best_results>>

\* optimize_parameters: one pass of the innermost loop
OptStep ==
    /\ prog = "optimize_parameters" /\ pc = "scan"
    /\ LET m   == OP_Metrics(idx, C_right)
           nxt == Advance(idx, OP_Sizes, 4)
       IN  /\ IF OP_Improves(m, min_margin, best_log_T0)
              THEN best_log_T0' = m.log_T0 /\ best' = << <<m.c, m.kappa, m.R0>> >>
              ELSE UNCHANGED <<best, best_log_T0>>
           /\ IF nxt = << >> \/ nxt[1] # idx[1]
              THEN pc' = "store" /\ idx' = idx
              ELSE pc' = pc /\ idx' = nxt
    /\ UNCHANGED <<prog, sumVars, dcVars, runVars, anaVars, min_margin, show_plot, C_right,
                   all_valid, best_results, plotted>>

\* optimize_parameters: if best_params: best_results[method_name] = {...};
\* then the next method, with best_log_T0 and best_params reset
OptStore ==
    /\ prog = "optimize_parameters" /\ pc = "store"
    /\ best_results' =
          IF best # None
          THEN (T0_MethodNames[idx[1] + 1] :>
                   [c |-> best[1][1], kappa |-> best[1][2], R0 |-> best[1][3],
                    log_T0 |-> best_log_T0, T0 |-> <<"exp", best_log_T0>>])
               @@ best_results
          ELSE best_results
    /\ IF idx[1] + 1 < Len(T0_MethodNames)
       THEN /\ idx' = <<idx[1] + 1, 0, 0, 0>>
            /\ best' = None /\ best_log_T0' = Inf
            /\ pc' = "scan"
       ELSE /\ pc' = "display"
            /\ UNCHANGED <<idx, best, best_log_T0>>
    /\ UNCHANGED <<prog, sumVars, dcVars, runVars, anaVars, min_margin, show_plot, C_right,
                   all_valid, plotted>>

\* optimize_parameters: the table, one row per entry of best_results
OptDisplay ==
    /\ prog = "optimize_parameters" /\ pc = "display"
    /\ console' = console \o <<"Optimal parameters by method">>
                    \o SelectSeq(T0_MethodNames,
                                 LAMBDA m : m \in DOMAIN best_results)
    /\ pc' = "returned"
    /\ UNCHANGED <<prog, P, ipp, method, HAS_MPMATH, no_prime_powers, ret,
                   bounds, results, saved, exit_code, P_values, vresults,
                   dcVars, runVars, anaVars, optVars>>

\* ---------------------------------------------- derived constants, by module
DcModules == {"threshold_T0", "measure_Cthin_star", "optimize",
              "analyze_improvements", "test_improvements"}

\* The parameter sets of the two scenarios, and the exponents of the table
\* and the custom default 0.15.
DcArgs ==
    [c : {Lit(25, 100), Lit(35, 100)},
     kappa : {Lit(2, 1), Lit(8, 10)},
     R0 : {Lit(125, 1000), Lit(10, 100)},
     sub_weyl_exp : {T0_SUB_WEYL_EXPONENTS[m] : m \in DOMAIN T0_SUB_WEYL_EXPONENTS}
                      \cup {Lit(15, 100)},
     C_right : {O_C_right}]

InitDerived ==
    /\ prog = "derived_constants" /\ pc = "run"
    /\ dc_args \in DcArgs
    /\ derived = << >>
    /\ SumArgsIdle /\ SumIdle /\ OptIdle /\ AnaIdle /\ RunIdle

\* what module m computes from dc_args
DcCompute(m) ==
    LET a == dc_args
    IN  CASE m = "threshold_T0" ->
               LET C_thin == T0_compute_C_thin_star(a.R0, a.sub_weyl_exp)
               IN  <<T0_alpha_star(a.R0, a.sub_weyl_exp), C_thin,
                     T0_compute_log_T0(a.c, a.kappa, a.C_right, C_thin)>>
          [] m = "measure_Cthin_star" ->
               LET alpha_star  == M_compute_boundary_growth_slope(a.R0, a.sub_weyl_exp)
                   C_thin_star == M_compute_C_thin_star(a.R0, alpha_star)
               IN  <<alpha_star, C_thin_star,
                     M_log_T0(a.c, a.kappa, a.C_right, C_thin_star)>>
          [] m = "optimize" ->
               LET r == compute_metrics(a.c, a.kappa, a.R0, a.sub_weyl_exp, a.C_right)
               IN  <<O_alpha(a.R0, a.sub_weyl_exp), r.C_thin, r.log_T0>>
          [] m = "analyze_improvements" ->
               A_compute_threshold(a.c, a.kappa, a.R0, a.sub_weyl_exp, a.C_right)
          [] m = "test_improvements" ->
               I_improved_measure_Cthin(a.c, a.kappa, a.R0, a.sub_weyl_exp, a.C_right)

\* one module computes its constants and threshold
DcRun ==
    /\ prog = "derived_constants" /\ pc = "run"
    /\ \E m \in DcModules \ DOMAIN derived :
          derived' = (m :> DcCompute(m)) @@ derived
    /\ UNCHANGED <<prog, pc, sumVars, optVars, dc_args, anaVars, runVars>>

\* ------------------------------------------------ threshold_T0.py: main
\* --custom_exp, default
T0_custom_exp == Lit(15, 100)

\* math.log(2.4e12), T_star of main
LogTstar == 28506490

\* math.exp raises OverflowError beyond the largest double
ExpRaises(x) == x > 709 * Scale + Lit(78, 100)

\* the namespaces parse_args can return (--compare and --optimize not given);
\* custom_exp_given tells whether --custom_exp was on the command line
ThresholdArgs ==
    {a \in [c : {Lit(-25, 100), 0, Lit(25, 100), Lit(35, 100)},
            kappa : {Lit(-2, 1), Lit(8, 10), Lit(2, 1)},
            R0 : {Lit(-1, 10), 0, Lit(10, 100), Lit(125, 1000)},
            C_right : {O_C_right},
            C_thin : {None, <<Lit(-1, 1)>>},
            method : {"current", "huxley", "bourgain", "custom"},
            custom_exp_given : BOOLEAN,
            custom_exp : {T0_custom_exp, Lit(2, 10)}] :
        ~a.custom_exp_given => a.custom_exp = T0_custom_exp}

\* if args.method in SUB_WEYL_EXPONENTS: ... else: sub_weyl_exp = args.custom_exp
T0_sub_weyl_exp(a) ==
    IF a.method \in DOMAIN T0_SUB_WEYL_EXPONENTS
    THEN T0_SUB_WEYL_EXPONENTS[a.method] ELSE a.custom_exp

\* if args.C_thin is None: C_thin = compute_C_thin_star(...) else: args.C_thin
T0_C_thin(a) ==
    IF a.C_thin = None THEN T0_compute_C_thin_star(a.R0, T0_sub_weyl_exp(a))
    ELSE a.C_thin[1]

\* compute_threshold raises ZeroDivisionError at 8.0 / R0 and at c / log_T0,
\* and OverflowError at math.exp(log_T0)
ThresholdRaises(a) ==
    \/ a.C_thin = None /\ a.R0 = 0
    \/ LET log_T0 == T0_compute_log_T0(a.c, a.kappa, a.C_right, T0_C_thin(a))
       IN  log_T0 = 0 \/ ExpRaises(log_T0)

\* compute_threshold(args): the results dict
compute_threshold(a) ==
    LET sub_weyl_exp == T0_sub_weyl_exp(a)
        C_thin       == T0_C_thin(a)
        log_T0       == T0_compute_log_T0(a.c, a.kappa, a.C_right, C_thin)
        h_at_T0      == FDiv(a.c, log_T0)
        delta_at_T0  == FDiv(a.kappa, log_T0)
        bound_at_T0  == FMul(FDiv(a.c, log_T0), a.C_right + FMul(a.kappa, C_thin))
    IN  [parameters |-> [c |-> a.c, kappa |-> a.kappa, R0 |-> a.R0,
                         C_right |-> a.C_right, C_thin |-> C_thin,
                         method |-> a.method, sub_weyl_exp |-> sub_weyl_exp],
         threshold |-> [log_T0 |-> log_T0, T0 |-> <<"exp", log_T0>>,
                        T0_scientific |-> <<"%.3e", log_T0>>],
         at_threshold |-> [h |-> h_at_T0, delta |-> delta_at_T0,
                           bound |-> bound_at_T0,
                           bound_over_pi |-> FDiv(bound_at_T0, PI)]]

InitThreshold ==
    /\ prog = "threshold_T0" /\ pc = "start"
    /\ args \in ThresholdArgs
    /\ payload = None /\ rows = << >>
    /\ SumArgsIdle /\ SumIdle /\ OptIdle /\ DcIdle /\ RunIdle

\* main: results = compute_threshold(args)
ThresholdCompute ==
    /\ prog = "threshold_T0" /\ pc = "start"
    /\ IF ThresholdRaises(args)
       THEN /\ pc' = "raised" /\ exit_code' = 1
            /\ UNCHANGED <<payload, console>>
       ELSE /\ payload' = <<compute_threshold(args)>>
            /\ console' = Append(console, "THRESHOLD COMPUTATION")
            /\ pc' = "computed"
            /\ UNCHANGED exit_code
    /\ UNCHANGED <<prog, P, ipp, method, HAS_MPMATH, no_prime_powers, ret,
                   bounds, results, saved, P_values, vresults,
                   optVars, dcVars, runVars, args, rows>>

\* main: save_results(results, args) and the final message
ThresholdSave ==
    /\ prog = "threshold_T0" /\ pc = "computed"
    /\ saved' = payload
    /\ console' = Append(console,
                         IF payload[1].threshold.log_T0 < LogTstar
                         THEN "[SUCCESS]" ELSE "[WARNING]")
    /\ pc' = "done" /\ exit_code' = 0
    /\ UNCHANGED <<prog, P, ipp, method, HAS_MPMATH, no_prime_powers, ret,
                   bounds, results, P_values, vresults,
                   optVars, dcVars, runVars, anaVars>>

\* ------------------------------------------- threshold_T0.compute_log_T0
\* the arguments compute_log_T0 is called with: C_thin is the computed
\* C_thin* or the --C_thin of the command line, of either sign
LogT0Args ==
    [c : {Lit(15, 100), Lit(25, 100), Lit(35, 100)},
     kappa : {Lit(1, 10), Lit(8, 10), Lit(2, 1)},
     C_right : {O_C_right, 5 * Scale},
     C_thin : {Lit(-2, 1), Lit(-1, 1), 16 * Scale, Lit(1853, 100)}]

InitLogT0 ==
    /\ prog = "compute_log_T0" /\ pc = "call"
    /\ args \in LogT0Args
    /\ payload = None /\ rows = << >>
    /\ SumArgsIdle /\ SumIdle /\ OptIdle /\ DcIdle /\ RunIdle

\* compute_log_T0(c, kappa, C_right, C_thin)
LogT0Call ==
    /\ prog = "compute_log_T0" /\ pc = "call"
    /\ ret' = <<T0_compute_log_T0(args.c, args.kappa, args.C_right, args.C_thin)>>
    /\ pc' = "returned"
    /\ UNCHANGED <<prog, P, ipp, method, HAS_MPMATH, no_prime_powers, bounds,
                   console, results, saved, exit_code, P_values, vresults,
                   optVars, dcVars, runVars, anaVars>>

\* ------------------------------------ optimize.py: analyze_current, --test
\* configs of analyze_current: (c, kappa, R0) of "Paper default", "Optimized"
AC_configs ==
    <<[c |-> Lit(25, 100), kappa |-> Lit(2, 1), R0 |-> Lit(125, 1000)],
      [c |-> Lit(35, 100), kappa |-> Lit(8, 10), R0 |-> Lit(10, 100)]>>

InitAnalyzeCurrent ==
    /\ prog = "analyze_current" /\ pc = "loop"
    /\ args = None /\ payload = None /\ rows = << >>
    /\ SumArgsIdle /\ SumIdle /\ OptIdle /\ DcIdle /\ RunIdle

\* for name, c, kappa, R0 in configs: r = compute_metrics(c, kappa, R0); print
AnalyzeCurrentStep ==
    /\ prog = "analyze_current" /\ pc = "loop"
    /\ LET t == AC_configs[Len(rows) + 1]
           r == compute_metrics(t.c, t.kappa, t.R0, O_sub_weyl_exp, O_C_right)
       IN  /\ rows' = Append(rows, r)
           /\ console' = Append(console, r.status)
    /\ pc' = IF Len(rows) + 1 = Len(AC_configs) THEN "returned" ELSE pc
    /\ UNCHANGED <<prog, P, ipp, method, HAS_MPMATH, no_prime_powers, ret,
                   bounds, results, saved, exit_code, P_values, vresults,
                   optVars, dcVars, runVars, args, payload>>

\* the three floats of --test
TestArgs ==
    [c : {Lit(-25, 100), Lit(20, 100), Lit(25, 100), Lit(35, 100)},
     kappa : {Lit(-2, 1), Lit(3, 10), Lit(8, 10), Lit(2, 1)},
     R0 : {Lit(-1, 10), 0, Lit(10, 100), Lit(125, 1000), Lit(15, 100)}]

InitTestParameters ==
    /\ prog = "test_parameters" /\ pc = "call"
    /\ args \in TestArgs
    /\ payload = None /\ rows = << >>
    /\ SumArgsIdle /\ SumIdle /\ OptIdle /\ DcIdle /\ RunIdle

\* compute_metrics raises ZeroDivisionError at 8.0 / R0
MetricsRaise(R0) == R0 = 0

\* test_parameters(c, kappa, R0): r, then default = compute_metrics(0.25, 2.0, 0.125)
TestParameters ==
    /\ prog = "test_parameters" /\ pc = "call"
    /\ IF MetricsRaise(args.R0)
       THEN /\ pc' = "raised" /\ exit_code' = 1
            /\ UNCHANGED <<rows, console>>
       ELSE /\ rows' = <<compute_metrics(args.c, args.kappa, args.R0,
                                         O_sub_weyl_exp, O_C_right),
                         compute_metrics(AC_configs[1].c, AC_configs[1].kappa,
                                         AC_configs[1].R0, O_sub_weyl_exp, O_C_right)>>
            /\ console' = Append(console, rows'[1].status)
            /\ pc' = "returned"
            /\ UNCHANGED exit_code
    /\ UNCHANGED <<prog, P, ipp, method, HAS_MPMATH, no_prime_powers, ret,
                   bounds, results, saved, P_values, vresults,
                   optVars, dcVars, runVars, args, payload>>

\* --------------------------------------------------- measure_Cthin_star.py
\* SUB_WEYL_EXPONENTS of measure_Cthin_star.py and of optimize.py
M_SUB_WEYL_EXPONENTS ==
    [m \in {"current", "huxley", "bourgain", "hypothetical"} |->
        CASE m = "current"      -> FDiv(27 * Scale, 164 * Scale)
          [] m = "huxley"       -> FDiv(32 * Scale, 205 * Scale)
          [] m = "bourgain"     -> FDiv(13 * Scale, 84 * Scale)
          [] m = "hypothetical" -> FDiv(1 * Scale, 8 * Scale)]

O_SUB_WEYL_EXPONENTS ==
    [m \in {"current", "huxley", "bourgain", "hypothetical"} |->
        CASE m = "current"      -> FDiv(27 * Scale, 164 * Scale)
          [] m = "huxley"       -> FDiv(32 * Scale, 205 * Scale)
          [] m = "bourgain"     -> FDiv(13 * Scale, 84 * Scale)
          [] m = "hypothetical" -> FDiv(1 * Scale, 8 * Scale)]

\* estimate_average_g_R0: avg_factor of a model; the else branch takes 0.5
M_avg_factor(delta, model) ==
    CASE model = "toy"          -> Lit(5, 10)
      [] model = "realistic"    ->
            Lit(58, 100) - FDiv(FMul(Lit(8, 100), delta), delta + Lit(1, 10))
      [] model = "conservative" -> Lit(65, 100)
      [] OTHER                  -> Lit(5, 10)

\* estimate_average_g_R0(T, h, delta, alpha_star, model) at T = 1e12:
\* (avg_proxy, std_proxy)
estimate_average_g_R0(h, delta, alpha_star, model) ==
    LET scale == FMul(alpha_star, LogT)
    IN  <<FMul(FMul(scale, M_avg_factor(delta, model)), delta),
          FMul(FMul(scale, Lit(1, 10)), delta)>>

\* the calls of estimate_average_g_R0: any string can be passed as model
EstimateArgs ==
    [h : {FDiv(Lit(25, 100), LogT)},
     delta : {0, Lit(1, 100), FDiv(Lit(2, 1), LogT), Lit(1, 10), Lit(5, 10)},
     alpha_star : {Lit(25, 100), Lit(3, 10)},
     model : {"toy", "realistic", "conservative", "optimistic"}]

InitEstimate ==
    /\ prog = "estimate_average_g_R0" /\ pc = "call"
    /\ args \in EstimateArgs
    /\ payload = None /\ rows = << >>
    /\ SumArgsIdle /\ SumIdle /\ OptIdle /\ DcIdle /\ RunIdle

EstimateCall ==
    /\ prog = "estimate_average_g_R0" /\ pc = "call"
    /\ ret' = estimate_average_g_R0(args.h, args.delta, args.alpha_star, args.model)
    /\ pc' = "returned"
    /\ UNCHANGED <<prog, P, ipp, method, HAS_MPMATH, no_prime_powers, bounds,
                   console, results, saved, exit_code, P_values, vresults,
                   optVars, dcVars, runVars, anaVars>>

\* the namespaces parse_args of measure_Cthin_star.py can return, T = 1e12
MarginArgs ==
    {a \in [R0 : {Lit(-1, 10), 0, Lit(125, 1000), Lit(15, 100)},
            c : {Lit(-25, 100), Lit(20, 100), Lit(25, 100), Lit(35, 100)},
            kappa : {Lit(-2, 1), Lit(3, 10), Lit(2, 1)},
            method : {"current", "huxley", "bourgain", "custom"},
            custom_exp_given : BOOLEAN,
            custom_exp : {T0_custom_exp, Lit(2, 10)},
            model : {"toy", "realistic", "conservative"},
            C_right : {O_C_right}] :
        ~a.custom_exp_given => a.custom_exp = T0_custom_exp}

\* if args.method in SUB_WEYL_EXPONENTS: ... else: sub_weyl_exp = args.custom_exp
M_sub_weyl_exp(a) ==
    IF a.method \in DOMAIN M_SUB_WEYL_EXPONENTS
    THEN M_SUB_WEYL_EXPONENTS[a.method] ELSE a.custom_exp

\* the line analyze_margin prints for a margin
M_MarginLine(margin_percent) ==
    IF margin_percent < 0 THEN "WARNING: Negative margin!"
    ELSE IF margin_percent < 20 * Scale THEN "WARNING: Low margin."
    ELSE "Status: OK (margin > 20%)"

\* analyze_margin raises ZeroDivisionError at 8.0 / R0
MarginRaises(a) == a.R0 = 0

\* analyze_margin(args): the results dict
analyze_margin(a) ==
    LET h              == FDiv(a.c, LogT)
        delta          == FDiv(a.kappa, LogT)
        sub_weyl_exp   == M_sub_weyl_exp(a)
        alpha_star     == M_compute_boundary_growth_slope(a.R0, sub_weyl_exp)
        C_thin_star    == M_compute_C_thin_star(a.R0, alpha_star)
        est            == estimate_average_g_R0(h, delta, alpha_star, a.model)
        bound_rhs      == FMul(FMul(FMul(C_thin_star, h), delta), LogT)
        margin         == bound_rhs - est[1]
        margin_percent == IF bound_rhs > 0
                          THEN FMul(FDiv(margin, bound_rhs), 100 * Scale) ELSE 0
        log_T0         == M_log_T0(a.c, a.kappa, a.C_right, C_thin_star)
    IN  [parameters |-> [R0 |-> a.R0, c |-> a.c, kappa |-> a.kappa,
                         method |-> a.method, sub_weyl_exp |-> sub_weyl_exp,
                         model |-> a.model],
         derived |-> [h |-> h, delta |-> delta, alpha_star |-> alpha_star,
                      C_thin_star |-> C_thin_star],
         measurements |-> [avg_proxy |-> est[1], std_proxy |-> est[2],
                           bound_rhs |-> bound_rhs, margin |-> margin,
                           margin_percent |-> margin_percent],
         threshold |-> [C_right |-> a.C_right, log_T0 |-> log_T0,
                        T0 |-> <<"exp", log_T0>>]]

InitMargin ==
    /\ prog = "measure_Cthin_star" /\ pc = "start"
    /\ args \in MarginArgs
    /\ payload = None /\ rows = << >>
    /\ SumArgsIdle /\ SumIdle /\ OptIdle /\ DcIdle /\ RunIdle

\* main: analyze_margin(args), which prints, saves and returns the results
MarginAnalyze ==
    /\ prog = "measure_Cthin_star" /\ pc = "start"
    /\ IF MarginRaises(args)
       THEN /\ pc' = "raised" /\ exit_code' = 1
            /\ UNCHANGED <<payload, console, saved>>
       ELSE /\ payload' = <<analyze_margin(args)>>
            /\ console' = Append(console,
                  M_MarginLine(analyze_margin(args).measurements.margin_percent))
            /\ saved' = payload'
            /\ pc' = "done" /\ exit_code' = 0
    /\ UNCHANGED <<prog, P, ipp, method, HAS_MPMATH, no_prime_powers, ret,
                   bounds, results, P_values, vresults,
                   optVars, dcVars, runVars, args, rows>>

\* ------------------------------------------------ validate_horizontals.py
\* math.log(2), math.log(10)
Ln2 == Ln(2) \div 100

\* math.log(10**e)
LogDecade(e) == e * (Ln(10) \div 100) + (e * (Ln(10) % 100)) \div 100

\* y + y^3/3 + ... + y^k/k ..., the odd powers from y^k to y^13
RECURSIVE AtanhTerms(_, _, _)
AtanhTerms(y, power, k) ==
    IF k > 13 THEN 0
    ELSE power \div k + AtanhTerms(y, FMul(FMul(power, y), y), k + 2)

\* math.log(x) of a float x > 0: ln x = 2 atanh((x - 1)/(x + 1)) on [1/2, 2)
RECURSIVE math_log(_)
math_log(x) ==
    IF x >= 2 * Scale THEN Ln2 + math_log(x \div 2)
    ELSE IF 2 * x < Scale THEN math_log(2 * x) - Ln2
    ELSE LET y == FDiv(x - Scale, x + Scale)
         IN  2 * AtanhTerms(y, y, 1)

RECURSIVE SqrtBisect(_, _, _)
SqrtBisect(x, lo, hi) ==
    IF hi - lo <= 1 THEN lo
    ELSE LET mid == (lo + hi) \div 2
         IN  IF MulAbs(mid, mid) <= x THEN SqrtBisect(x, mid, hi)
                                      ELSE SqrtBisect(x, lo, mid)

\* math.sqrt(x), 0 <= x < 2116
math_sqrt(x) == SqrtBisect(x, 0, 46 * Scale)

\* A height t is the pair <<m, e>> that stands for m * 10^e: <<t, 0>> for a
\* small t, <<1, e>> for 1e10 .. 1e14.  At e >= 10 the doubles T, T + h/2 and
\* T + h differ by less than 1e-11 of T and stand for the same pair.
Height(e) == <<Scale, e>>

\* 1.0 / abs(t)
Recip(t) == IF t[2] >= 7 THEN 0 ELSE FDiv(Scale, Abs(t[1])) \div Pow(10, t[2])

\* mp.im(mp.diff(lambda z: mp.log(mp.gamma(z)), s)) = Im psi(sigma + i t), for
\* the arguments with |s| < 10 that the model meets (t = 0.5)
MpLogGammaDerivative ==
    [sigma \in {-Lit(5, 100), -Lit(25, 100), -Lit(5, 10), -Scale} |->
        CASE sigma = -Lit(5, 100)  -> 2736246
          [] sigma = -Lit(25, 100) -> 2581853
          [] sigma = -Lit(5, 10)   -> 2440660
          [] sigma = -Scale        -> 3112689]

\* stirling_log_gamma_derivative(sigma, t)
stirling_log_gamma_derivative(sigma, t) ==
    IF t[2] > 0
    THEN \* s_abs = |t| in doubles, and sigma / (2 s_abs^2) < 1e-19
         LogDecade(t[2]) + math_log(Abs(t[1]))
    ELSE LET s_abs == math_sqrt(FMul(sigma, sigma) + FMul(t[1], t[1]))
         IN  IF s_abs < 10 * Scale
             THEN IF HAS_MPMATH THEN MpLogGammaDerivative[sigma]
                                ELSE math_log(s_abs)
             ELSE \* sigma / (2 * s_abs**2), divided in two steps
                  math_log(s_abs) + FDiv(FDiv(sigma, 2 * s_abs), s_abs)

\* the value of the branch sigma < 0.75
StirlingSide(sigma, t) ==
    Abs(stirling_log_gamma_derivative(Lit(5, 10) - sigma, t)) + Recip(t)

\* the value of the branch sigma > 1.5
DirichletSide(sigma) == FDiv(2 * Scale, FMul(sigma, sigma))

\* weight = (sigma - 0.75) / 0.75
InterpolationWeight(sigma) == FDiv(sigma - Lit(75, 100), Lit(75, 100))

\* estimate_f_prime_over_f_derivative(sigma, t)
estimate_f_prime_over_f_derivative(sigma, t) ==
    IF sigma > Lit(15, 10) THEN DirichletSide(sigma)
    ELSE IF sigma < Lit(75, 100) THEN StirlingSide(sigma, t)
    ELSE LET weight      == InterpolationWeight(sigma)
             left_bound  == stirling_log_gamma_derivative(Lit(5, 10) - sigma, t)
                              + Recip(t)
             right_bound == FDiv(2 * Scale, FMul(sigma, sigma))
         IN  FMul(Scale - weight, Abs(left_bound)) + FMul(weight, right_bound)

\* np.max over the samples, starting from max_derivative = 0
SetMax(S) == CHOOSE x \in S : \A y \in S : y <= x

\* max_derivative of compute_horizontal_bound: the loops over
\* t in [T, T + h/2, T + h] and sigma in np.linspace(0.5 + delta, 2.0, 20)
max_derivative(T, delta) ==
    LET sigma_values == Linspace(Lit(5, 10) + delta, 2 * Scale, 20)
    IN  SetMax({0} \cup {estimate_f_prime_over_f_derivative(sigma_values[i], T) :
                            i \in DOMAIN sigma_values})

\* compute_horizontal_bound(T, h, delta, method); C_horiz = max_derivative * T
\* is the pair <<max_derivative, e>>, and C_horiz * h / T takes the 10^e off
compute_horizontal_bound(T, h, delta, bound_method) ==
    LET m == max_derivative(T, delta)
        C_horiz == <<m, T[2]>>
    IN  [T |-> T, h |-> h, delta |-> delta, method |-> bound_method,
         envelope |->
            IF bound_method \in {"envelope", "both"}
            THEN <<[max_derivative |-> m, envelope_bound |-> FMul(h, m),
                    C_horiz |-> C_horiz,
                    refined_bound |-> FMul(C_horiz[1], h)]>>
            ELSE None,
         numerical |->
            IF bound_method \in {"numerical", "both"} /\ HAS_MPMATH
            THEN <<"phi_T, phi_T_plus_h, difference, max_derivative">>
            ELSE None]

\* the arguments estimate_f_prime_over_f_derivative is called with
DerivativeArgs ==
    [sigma : {Lit(55, 100), Lit(75, 100), Scale, Lit(15, 10), Lit(15, 10) + 1,
              2 * Scale},
     t : {<<Lit(5, 10), 0>>, <<20 * Scale, 0>>, Height(12)}]

InitDerivative ==
    /\ prog = "estimate_f_prime_over_f_derivative" /\ pc = "call"
    /\ \E a \in DerivativeArgs : args = <<a>>
    /\ HAS_MPMATH \in BOOLEAN
    /\ P = 0 /\ ipp = "default" /\ method = "sieve"
    /\ no_prime_powers = FALSE /\ P_values = << >>
    /\ payload = None /\ rows = << >>
    /\ SumIdle /\ OptIdle /\ DcIdle /\ RunIdle

DerivativeCall ==
    /\ prog = "estimate_f_prime_over_f_derivative" /\ pc = "call"
    /\ ret' = <<estimate_f_prime_over_f_derivative(args[1].sigma, args[1].t)>>
    /\ pc' = "returned"
    /\ UNCHANGED <<prog, P, ipp, method, HAS_MPMATH, no_prime_powers, bounds,
                   console, results, saved, exit_code, P_values, vresults,
                   optVars, dcVars, anaVars, runVars>>

\* The command lines of validate_horizontals.py: --T, --c, --kappa, --method,
\* --multiple.  With --multiple the model takes the kappa for which the
\* heights differ by more than 1e-6; for a smaller kappa the bounds at the
\* five heights agree to 1e-11.
HorizontalArgs ==
    {a \in [T : {Height(10), Height(12)},
            c : {Lit(25, 100), Lit(35, 100), 2 * Scale},
            kappa : {Lit(8, 10), 2 * Scale, 8 * Scale, 10 * Scale},
            method : {"envelope", "numerical", "both"},
            multiple : BOOLEAN] :
        /\ a.multiple => a.kappa >= 8 * Scale /\ a.T = Height(12)
        /\ ~a.multiple => a.kappa <= 8 * Scale}

\* T_values = [1e10, 1e11, 1e12, 1e13, 1e14]
T_values == <<Height(10), Height(11), Height(12), Height(13), Height(14)>>

InitHorizontals ==
    /\ prog = "validate_horizontals" /\ pc = "start"
    /\ \E a \in HorizontalArgs : args = <<a>>
    /\ HAS_MPMATH \in BOOLEAN
    /\ P = 0 /\ ipp = "default" /\ method = "sieve"
    /\ no_prime_powers = FALSE /\ P_values = << >>
    /\ payload = None /\ rows = << >>
    /\ SumIdle /\ OptIdle /\ DcIdle /\ RunIdle

\* main, single height: h, delta, compute_horizontal_bound(args.T, h, delta,
\* args.method) and the prints of the results
HorizontalSingle ==
    /\ prog = "validate_horizontals" /\ pc = "start" /\ ~args[1].multiple
    /\ LET a     == args[1]
           h     == FDiv(a.c, LogDecade(a.T[2]))
           delta == FDiv(a.kappa, LogDecade(a.T[2]))
           res   == compute_horizontal_bound(a.T, h, delta, a.method)
       IN  /\ payload' = <<res>>
           /\ console' =
                IF res.envelope = None THEN console
                ELSE Append(console,
                       IF res.envelope[1].refined_bound < PI \div 2
                       THEN "[OK] Bound < pi/2: Horizontal contribution controlled"
                       ELSE "[WARNING] Bound >= pi/2")
    /\ pc' = "computed"
    /\ UNCHANGED <<prog, P, ipp, method, HAS_MPMATH, no_prime_powers, ret,
                   bounds, results, saved, exit_code, P_values, vresults,
                   optVars, dcVars, args, rows, runVars>>

\* validate_multiple_heights: one pass of "for T in T_values"
HorizontalHeight ==
    /\ prog = "validate_horizontals" /\ pc = "start" /\ args[1].multiple
    /\ Len(rows) < Len(T_values)
    /\ LET a     == args[1]
           T     == T_values[Len(rows) + 1]
           h     == FDiv(a.c, LogDecade(T[2]))
           delta == FDiv(a.kappa, LogDecade(T[2]))
           res   == compute_horizontal_bound(T, h, delta, "envelope")
       IN  /\ rows' = Append(rows, res)
           /\ console' = Append(console, "Bound, Bound/pi")
    /\ UNCHANGED <<prog, pc, P, ipp, method, HAS_MPMATH, no_prime_powers, ret,
                   bounds, results, saved, exit_code, P_values, vresults,
                   optVars, dcVars, args, payload, runVars>>

\* validate_multiple_heights: return results
HorizontalMultiple ==
    /\ prog = "validate_horizontals" /\ pc = "start" /\ args[1].multiple
    /\ Len(rows) = Len(T_values)
    /\ payload' = <<[multiple |-> rows]>>
    /\ pc' = "computed"
    /\ UNCHANGED <<prog, P, ipp, method, HAS_MPMATH, no_prime_powers, ret,
                   bounds, console, results, saved, exit_code, P_values,
                   vresults, optVars, dcVars, args, rows, runVars>>

\* save_results(results, args): a dict of four keys or {'multiple': [...]},
\* either of them true in "if results"
HorizontalSave ==
    /\ prog = "validate_horizontals" /\ pc = "computed"
    /\ saved' = <<[parameters |-> args[1], results |-> payload[1],
                   summary |-> [method |-> args[1].method,
                                conclusion |-> "Horizontal bounds verified"]]>>
    /\ console' = Append(console, "SUMMARY")
    /\ pc' = "done" /\ exit_code' = 0
    /\ UNCHANGED <<prog, P, ipp, method, HAS_MPMATH, no_prime_powers, ret,
                   bounds, results, P_values, vresults,
                   optVars, dcVars, anaVars, runVars>>

\* ------------------------------------------------ tests/smoke.py, run_all.py
\* cmds of smoke.py, by script
cmds == <<"compute_C_right --P 500000", "threshold_T0", "measure_Cthin_star",
          "validate_horizontals">>

\* scripts of run_all.main
scripts == <<"compute_C_right", "measure_Cthin_star", "threshold_T0",
             "validate_horizontals">>

\* what subprocess.call / process.returncode can be: 0, or the status of a
\* script that failed
ReturnCodes == {0, 1, 2}

\* A flag that remembers the last command only.
OkOfLastCommand(was_ok, rc) == rc = 0

\* if subprocess.call(c) != 0: ok = False
SmokeOk(was_ok, rc) == IF rc # 0 THEN FALSE ELSE was_ok

InitSmoke ==
    /\ prog = "smoke" /\ pc = "loop"
    /\ ok = TRUE /\ executed = << >> /\ table = << >>
    /\ SumArgsIdle /\ SumIdle /\ OptIdle /\ DcIdle /\ AnaIdle

\* smoke.py: one pass of "for c in cmds"
SmokeCall ==
    /\ prog = "smoke" /\ pc = "loop" /\ Len(executed) < Len(cmds)
    /\ \E rc \in ReturnCodes :
          /\ executed' = Append(executed, [cmd |-> cmds[Len(executed) + 1],
                                           rc |-> rc])
          /\ ok' = SmokeOk(ok, rc)
    /\ UNCHANGED <<prog, pc, sumVars, optVars, dcVars, anaVars, table>>

\* smoke.py: print("[smoke] OK" if ok else "[smoke] FAIL"); sys.exit(0 if ok else 1)
SmokeExit ==
    /\ prog = "smoke" /\ pc = "loop" /\ Len(executed) = Len(cmds)
    /\ console' = Append(console, IF ok THEN "[smoke] OK" ELSE "[smoke] FAIL")
    /\ exit_code' = (IF ok THEN 0 ELSE 1)
    /\ pc' = "done"
    /\ UNCHANGED <<prog, P, ipp, method, HAS_MPMATH, no_prime_powers, ret,
                   bounds, results, saved, P_values, vresults,
                   optVars, dcVars, anaVars, runVars>>

InitRunAll ==
    /\ prog = "run_all" /\ pc = "loop"
    /\ ok = TRUE /\ executed = << >> /\ table = << >>
    /\ SumArgsIdle /\ SumIdle /\ OptIdle /\ DcIdle /\ AnaIdle

\* run_all.main: one pass of "for script_name, args in scripts":
\* run_script_with_logging, results.append, the warning
RunAllCall ==
    /\ prog = "run_all" /\ pc = "loop" /\ Len(rows) < Len(scripts)
    /\ \E return_code \in ReturnCodes :
          LET script_name == scripts[Len(rows) + 1]
          IN  /\ executed' = Append(executed, [cmd |-> script_name,
                                               rc |-> return_code])
              /\ rows' = Append(rows, <<script_name, return_code>>)
              /\ console' = IF return_code # 0
                            THEN Append(console, "WARNING: returned non-zero code")
                            ELSE console
    /\ UNCHANGED <<prog, pc, P, ipp, method, HAS_MPMATH, no_prime_powers, ret,
                   bounds, results, saved, exit_code, P_values, vresults,
                   optVars, dcVars, args, payload, ok, table>>

\* "SUCCESS" if return_code == 0 else "FAILED"
SummaryLine(result) ==
    <<result[1], IF result[2] = 0 THEN "SUCCESS" ELSE "FAILED">>

\* run_all.main: the summary on the console and the summary file
RunAllSummary ==
    /\ prog = "run_all" /\ pc = "loop" /\ Len(rows) = Len(scripts)
    /\ console' = Append(console, "SUMMARY")
    /\ saved' = <<[i \in 1..Len(rows) |-> SummaryLine(rows[i])]>>
    /\ exit_code' = 0
    /\ pc' = "done"
    /\ UNCHANGED <<prog, P, ipp, method, HAS_MPMATH, no_prime_powers, ret,
                   bounds, results, P_values, vresults,
                   optVars, dcVars, anaVars, runVars>>

\* ------------------------------------- test_improvements.compare_methods
\* methods and R0_values of compare_methods
CM_methods == <<"current", "huxley", "bourgain">>

CM_R0_values == <<Lit(5, 100), Lit(75, 1000), Lit(1, 10), Lit(125, 1000),
                  Lit(15, 100), Lit(2, 10)>>

\* the sub-Weyl exponent improved_measure_Cthin takes for args.method
CM_sub_weyl_exp(m) ==
    CASE m = "current"  -> FDiv(27 * Scale, 164 * Scale)
      [] m = "huxley"   -> FDiv(32 * Scale, 205 * Scale)
      [] m = "bourgain" -> FDiv(13 * Scale, 84 * Scale)
      [] OTHER          -> Lit(15, 100)

\* the dict improved_measure_Cthin(args) returns, for the base_args of
\* compare_methods; margin and relative_margin come from random samples and
\* are not followed
CM_result(a) ==
    LET v == I_improved_measure_Cthin(Lit(25, 100), 2 * Scale, a.R0,
                                      CM_sub_weyl_exp(a.method), O_C_right)
    IN  [method |-> a.method, sub_weyl_exp |-> CM_sub_weyl_exp(a.method),
         C_thin |-> v[2], log_T0 |-> v[3]]

\* min(method_results, key=lambda x: x['log_T0']): the first of the smallest
CM_min(method_results) ==
    LET k == CHOOSE i \in 1..Len(method_results) :
                /\ \A j \in 1..Len(method_results) :
                      method_results[i].log_T0 <= method_results[j].log_T0
                /\ \A j \in 1..(i - 1) :
                      method_results[j].log_T0 > method_results[i].log_T0
    IN  method_results[k]

InitCompare ==
    /\ prog = "compare_methods" /\ pc = "loop"
    /\ idx = <<1, 1>>
    /\ args = None /\ payload = None /\ rows = << >>
    /\ min_margin = 0 /\ show_plot = FALSE /\ C_right = 0
    /\ best = None /\ best_log_T0 = Inf /\ all_valid = << >>
    /\ best_results = << >> /\ plotted = FALSE
    /\ SumArgsIdle /\ SumIdle /\ DcIdle /\ RunIdle

\* compare_methods: one pass of "for method in methods: for R0 in R0_values"
CompareStep ==
    /\ prog = "compare_methods" /\ pc = "loop"
    /\ LET a == [method |-> CM_methods[idx[1]], R0 |-> CM_R0_values[idx[2]]]
       IN  /\ args' = <<a>>
           /\ rows' = Append(rows, CM_result(a))
    /\ IF idx[2] < Len(CM_R0_values) THEN idx' = <<idx[1], idx[2] + 1>> /\ pc' = pc
       ELSE IF idx[1] < Len(CM_methods) THEN idx' = <<idx[1] + 1, 1>> /\ pc' = pc
       ELSE idx' = idx /\ pc' = "summary"
    /\ UNCHANGED <<prog, sumVars, dcVars, runVars, payload, min_margin,
                   show_plot, C_right, best, best_log_T0, all_valid,
                   best_results, plotted>>

\* compare_methods: the summary table, one line per result, and the optimal
\* R0 of each method; both print args.R0
CompareSummary ==
    /\ prog = "compare_methods" /\ pc = "summary"
    /\ table' =
          [summary |-> [i \in 1..Len(rows) |->
                           [method |-> rows[i].method, R0 |-> args[1].R0,
                            C_thin |-> rows[i].C_thin, log_T0 |-> rows[i].log_T0]],
           optimal |-> [i \in 1..Len(CM_methods) |->
                           LET method_results ==
                                  SelectSeq(rows, LAMBDA r : r.method = CM_methods[i])
                           IN  [method |-> CM_methods[i], R0 |-> args[1].R0,
                                log_T0 |-> CM_min(method_results).log_T0]]]
    /\ pc' = "returned"
    /\ UNCHANGED <<prog, sumVars, optVars, dcVars, anaVars, ok, executed>>

Init ==
    \/ InitPrimesUpto \/ InitPartialSum \/ InitVerify \/ InitMain
    \/ InitGridSearch \/ InitOptimizeParameters \/ InitDerived
    \/ InitThreshold \/ InitLogT0 \/ InitAnalyzeCurrent \/ InitTestParameters
    \/ InitEstimate \/ InitMargin \/ InitDerivative \/ InitHorizontals
    \/ InitSmoke \/ InitRunAll \/ InitCompare

Next ==
    \/ PrimesUpto
    \/ PartialSum
    \/ VerifyStep
    \/ VerifyReturn
    \/ MainBounds
    \/ MainCheck
    \/ MainHighPrecision
    \/ MainSave
    \/ GridStep
    \/ GridReport
    \/ OptStep
    \/ OptStore
    \/ OptDisplay
    \/ DcRun
    \/ ThresholdCompute
    \/ ThresholdSave
    \/ LogT0Call
    \/ AnalyzeCurrentStep
    \/ TestParameters
    \/ EstimateCall
    \/ MarginAnalyze
    \/ DerivativeCall
    \/ HorizontalSingle
    \/ HorizontalHeight
    \/ HorizontalMultiple
    \/ HorizontalSave
    \/ SmokeCall
    \/ SmokeExit
    \/ RunAllCall
    \/ RunAllSummary
    \/ CompareStep
    \/ CompareSummary

Spec == Init /\ [][Next]_vars

\* ================================================================== claims

IsPrime(k) == k >= 2 /\ \A d \in 2..(k - 1) : k % d # 0

SeqRange(s) == {s[i] : i \in 1..Len(s)}

\* C1: for every cutoff P, primes_upto(P) is strictly ascending (so without
\* duplicates) and holds exactly the primes <= P; it is empty for P = 0 and
\* P = 1 and is [2] for P = 2.
C1_SieveExact ==
    (prog = "primes_upto" /\ pc = "returned") =>
        /\ \A i \in 1..(Len(ret) - 1) : ret[i] < ret[i + 1]
        /\ SeqRange(ret) = {k \in 0..P : IsPrime(k)}
        /\ (P \in {0, 1} => ret = << >>)
        /\ (P = 2 => ret = <<2>>)

C1_Witness ==
    prog = "primes_upto" /\ pc = "returned" /\ P >= 25 /\ Len(ret) >= 9

\* the passes of grid_search, and the position of a pass in "for R0 .. for c
\* .. for kappa"
GS_Idx ==
    {<<iR0, ic, ik>> : iR0 \in 0..(Len(GS_R0_values) - 1),
                       ic \in 0..(GridPoints - 1), ik \in 0..(GridPoints - 1)}

GS_Rank(i) == (i[1] * GridPoints + i[2]) * GridPoints + i[3]

\* the passes of optimize_parameters for method im, and the position of a pass
\* in "for method .. for c .. for kappa .. for R0"
OP_Idx(im) ==
    {<<im, ic, ik, iR0>> : ic \in 0..(GridPoints - 1),
                           ik \in 0..(GridPoints - 1), iR0 \in 0..(GridPoints - 1)}

OP_Rank(i) == ((i[1] * GridPoints + i[2]) * GridPoints + i[3]) * GridPoints + i[4]

OP_Methods == 0..(Len(T0_MethodNames) - 1)

Optimizers == {"grid_search", "optimize_parameters"}

\* C2: after the whole scan, if some tuple of the grid is feasible, the best
\* candidate reported is a feasible tuple of the grid and no feasible tuple has
\* a smaller log_T0; while scanning, the best held is never infeasible.
C2_BestIsFeasibleMinimum ==
    /\ (prog = "grid_search" /\ best # None) => GS_Feasible(best[1], min_margin)
    /\ (prog = "grid_search" /\ pc \in {"report", "returned"}) =>
          LET F == {r \in {GS_Metrics(i) : i \in GS_Idx} : GS_Feasible(r, min_margin)}
          IN  F # {} => /\ best # None
                        /\ best[1] \in F
                        /\ \A r \in F : best[1].log_T0 <= r.log_T0
    /\ (prog = "optimize_parameters" /\ pc \in {"display", "returned"}) =>
          \A im \in OP_Methods :
             LET name == T0_MethodNames[im + 1]
                 F    == {m \in {OP_Metrics(i, C_right) : i \in OP_Idx(im)} :
                             OP_Feasible(m, min_margin)}
             IN  F # {} =>
                   /\ name \in DOMAIN best_results
                   /\ \E m \in F : /\ m.c = best_results[name].c
                                   /\ m.kappa = best_results[name].kappa
                                   /\ m.R0 = best_results[name].R0
                                   /\ m.log_T0 = best_results[name].log_T0
                   /\ \A m \in F : best_results[name].log_T0 <= m.log_T0

\* grid_search has returned a best candidate although an infeasible tuple of
\* the grid has a smaller log_T0.
C2_Witness ==
    /\ prog = "grid_search" /\ pc = "returned" /\ best # None
    /\ \E i \in GS_Idx : /\ ~GS_Feasible(GS_Metrics(i), min_margin)
                         /\ GS_Metrics(i).log_T0 < best[1].log_T0

\* a step of a scan keeps the order of the nested loops, and a feasible tuple
\* whose log_T0 equals that of the best held does not replace it
C3_Step ==
    /\ (prog = "grid_search" /\ idx' # idx) => GS_Rank(idx') = GS_Rank(idx) + 1
    /\ (prog = "optimize_parameters" /\ idx' # idx) => OP_Rank(idx') = OP_Rank(idx) + 1
    /\ (prog = "grid_search" /\ pc = "scan" /\ best # None
          /\ GS_Metrics(idx).log_T0 = best_log_T0) => best' = best
    /\ (prog = "optimize_parameters" /\ pc = "scan" /\ best # None
          /\ OP_Metrics(idx, C_right).log_T0 = best_log_T0) => best' = best

\* after the scan, no feasible tuple with the log_T0 of the best comes before
\* the best in the order of the loops
C3_FirstOfTheTies ==
    /\ (prog = "grid_search" /\ pc \in {"report", "returned"} /\ best # None) =>
          \E b \in GS_Idx :
             /\ GS_Metrics(b) = best[1]
             /\ \A i \in GS_Idx :
                   (GS_Feasible(GS_Metrics(i), min_margin)
                      /\ GS_Metrics(i).log_T0 = best_log_T0)
                   => GS_Rank(b) <= GS_Rank(i)
    /\ (prog = "optimize_parameters" /\ pc = "store" /\ best # None) =>
          \E b \in OP_Idx(idx[1]) :
             /\ <<OP_Tuple(b).c, OP_Tuple(b).kappa, OP_Tuple(b).R0>> = best[1]
             /\ \A i \in OP_Idx(idx[1]) :
                   (OP_Feasible(OP_Metrics(i, C_right), min_margin)
                      /\ OP_Metrics(i, C_right).log_T0 = best_log_T0)
                   => OP_Rank(b) <= OP_Rank(i)

\* C3: the scan visits the tuples in the one order of its nested loops, and of
\* the feasible tuples that tie for the smallest log_T0 the first one visited
\* is retained: a later tuple with an equal log_T0 never replaces the best.
C3_FirstEncounteredWins == []C3_FirstOfTheTies /\ [][C3_Step]_vars

\* optimize_parameters, run with the C_right that makes log_T0 vanish, has
\* finished the scan of a method in which another feasible tuple ties with the
\* best retained.
C3_Witness ==
    /\ prog = "optimize_parameters" /\ pc = "store" /\ best # None
    /\ C_right = TieC_right /\ best_log_T0 = 0
    /\ \E i \in OP_Idx(idx[1]) :
          /\ OP_Feasible(OP_Metrics(i, C_right), min_margin)
          /\ OP_Metrics(i, C_right).log_T0 = best_log_T0
          /\ <<OP_Tuple(i).c, OP_Tuple(i).kappa, OP_Tuple(i).R0>> # best[1]

\* no tuple of the grid the optimizer scans is feasible
NoFeasibleTuple ==
    IF prog = "grid_search"
    THEN \A i \in GS_Idx : ~GS_Feasible(GS_Metrics(i), min_margin)
    ELSE \A im \in OP_Methods : \A i \in OP_Idx(im) :
            ~OP_Feasible(OP_Metrics(i, C_right), min_margin)

\* C4: when no tuple of the grid is feasible, the optimizer that has finished
\* holds no best candidate and has reported "No valid parameters found".
C4_NoFeasibleIsReported ==
    (prog \in Optimizers /\ pc = "returned" /\ NoFeasibleTuple) =>
       /\ best = None
       /\ "No valid parameters found" \in SeqRange(console)

\* C5: whatever the way the partial sum is computed (compute_partial_sum with
\* its default or explicit arguments, the main computation, verification
\* mode), it is the sum of ln(p)/(p^2 - 1) over the primes p <= P and nothing
\* else.
C5_NoPrimePowerTerms ==
    /\ (prog = "compute_partial_sum" /\ pc = "returned")
          => ret[1] = PrimeSum(primes_upto(P), 1)
    /\ (prog \in {"compute_C_right", "verify_computation"}
          /\ bounds # None /\ P # LargeP)
          => bounds[3] = PrimeSum(primes_upto(P), 1)

\* C6: for every cutoff P >= 2 the interval of compute_C_right_bounds has
\* lower = partial_sum, upper = partial_sum + tail_bound and tail_bound >= 0,
\* hence lower <= upper.
C6_IntervalShape ==
    (bounds # None /\ P >= 2) =>
        /\ bounds[1] = bounds[3]
        /\ bounds[2] = bounds[3] + bounds[4]
        /\ bounds[4] >= 0
        /\ bounds[1] <= bounds[2]
        /\ bounds[3] = compute_partial_sum(P, FALSE)

C6_Witness ==
    /\ prog = "compute_C_right" /\ bounds # None /\ P >= 2 /\ P # LargeP
    /\ bounds[4] > 0 /\ bounds[1] > 0

\* C7: of two cutoffs P1 < P2, both >= 2, the larger one has the strictly
\* smaller interval width upper - lower.
C7_WidthShrinks ==
    \A i, j \in 1..Len(vresults) :
        (2 <= vresults[i].P /\ vresults[i].P < vresults[j].P)
            => vresults[j].width < vresults[i].width

C7_Witness ==
    /\ prog = "verify_computation" /\ pc = "returned" /\ Len(vresults) = 2
    /\ vresults[1].P >= 2 /\ vresults[2].P = vresults[1].P + 1

\* C8: a run of the C_right computation whose interval does not contain the
\* reference value 0.5699618136104756 does not end as a successful run does:
\* it does not end normally with its results saved.
C8_OutsideIsAValidityError ==
    (prog = "compute_C_right" /\ bounds # None
       /\ ~(bounds[1] <= approx /\ approx <= bounds[2]))
        => ~(exit_code = 0 /\ saved # None)

\* C9: for a cutoff P < 2 no interval is produced and nothing is saved.
C9_SmallCutoffRejected ==
    (prog = "compute_C_right" /\ P < 2) => (bounds = None /\ saved = None)

\* C10: for the same c, kappa, R0, exponent and C_right, every module that has
\* computed the derived constants yields alpha_star = exponent + R0,
\* C_thin_star = (8/R0)*alpha_star and log_T0 = (2c/pi)*(C_right +
\* kappa*C_thin_star), so the modules agree with one another.
C10_ModulesAgree ==
    prog = "derived_constants" =>
       LET a           == dc_args
           alpha_star  == a.sub_weyl_exp + a.R0
           C_thin_star == FMul(FDiv(8 * Scale, a.R0), alpha_star)
           log_T0      == FMul(FDiv(2 * a.c, PI),
                               a.C_right + FMul(a.kappa, C_thin_star))
       IN  \A m \in DOMAIN derived : derived[m] = <<alpha_star, C_thin_star, log_T0>>

\* all five modules have computed their constants from the same inputs
C10_Witness == prog = "derived_constants" /\ DOMAIN derived = DcModules

\* the scripts that take c, kappa and R0 from their arguments
TakesParameters == prog \in {"threshold_T0", "measure_Cthin_star", "test_parameters"}

\* C11: when R0, c or kappa is not positive, the constants, threshold and
\* margin computations produce nothing: no results dict, no Result, no file.
C11_NonPositiveRejected ==
    (TakesParameters /\ (args.R0 <= 0 \/ args.c <= 0 \/ args.kappa <= 0)) =>
       payload = None /\ rows = << >> /\ saved = None

\* the preconditions of the monotonicity of log_T0
C12_Pre(a) == a.c > 0 /\ a.kappa > 0 /\ a.C_right + FMul(a.kappa, a.C_thin) > 0

C12_LogT0(a) == T0_compute_log_T0(a.c, a.kappa, a.C_right, a.C_thin)

\* b has the inputs of a but for the field f, which is larger
C12_Raises(a, b, f) ==
    /\ b[f] > a[f]
    /\ \A g \in DOMAIN a \ {f} : b[g] = a[g]

\* C12, as stated: under c > 0, kappa > 0, C_right + kappa*C_thin > 0, log_T0
\* grows strictly with c, with kappa and with C_thin, the others fixed.
C12_MonotoneAsStated ==
    (prog = "compute_log_T0" /\ pc = "returned" /\ C12_Pre(args)) =>
       \A b \in LogT0Args : \A f \in {"c", "kappa", "C_thin"} :
          (C12_Pre(b) /\ C12_Raises(args, b, f)) => C12_LogT0(b) > ret[1]

\* C12: under c > 0, kappa > 0, C_right + kappa*C_thin > 0, log_T0 grows
\* strictly with c and with C_thin, and it grows strictly with kappa when
\* C_thin > 0, the others fixed.
C12_MonotoneForPositiveCthin ==
    (prog = "compute_log_T0" /\ pc = "returned" /\ C12_Pre(args)) =>
       \A b \in LogT0Args : \A f \in {"c", "kappa", "C_thin"} :
          (C12_Pre(b) /\ C12_Raises(args, b, f) /\ (f = "kappa" => args.C_thin > 0))
          => C12_LogT0(b) > ret[1]

\* compute_log_T0 has returned for inputs with C_thin > 0 that a larger kappa,
\* a larger c and a larger C_thin of the input set can be compared with
C12_Witness ==
    /\ prog = "compute_log_T0" /\ pc = "returned" /\ C12_Pre(args)
    /\ args.C_thin > 0
    /\ \A f \in {"c", "kappa", "C_thin"} :
          \E b \in LogT0Args : C12_Pre(b) /\ C12_Raises(args, b, f)

\* the fields of the results of compute_threshold that hold a computed value
T0_ValueFields ==
    [parameters |-> {"c", "kappa", "R0", "C_right", "C_thin", "method", "sub_weyl_exp"},
     threshold |-> {"log_T0", "T0", "T0_scientific"},
     at_threshold |-> {"h", "delta", "bound", "bound_over_pi"}]

\* C13: when bound/pi at the threshold is not below 0.5, the results returned
\* by compute_threshold carry a field that flags it, besides the values.
C13_InconsistencyFlagged ==
    (prog = "threshold_T0" /\ payload # None
       /\ ~(payload[1].at_threshold.bound_over_pi < Lit(5, 10))) =>
       \/ DOMAIN payload[1] # DOMAIN T0_ValueFields
       \/ \E sec \in DOMAIN T0_ValueFields :
             DOMAIN payload[1][sec] # T0_ValueFields[sec]

\* C14: with method current and C_right = 0.569961, (0.35, 0.8, 0.10) has a
\* strictly smaller log_T0 than (0.25, 2.0, 0.125), whose log_T0 is within 0.05
\* of 6.0 and whose C_thin_star is within 0.01 of 18.53; in analyze_current and
\* in compute_threshold alike.
C14_Scenario2Smaller ==
    /\ (prog = "analyze_current" /\ pc = "returned") =>
          /\ rows[2].log_T0 < rows[1].log_T0
          /\ Abs(rows[1].log_T0 - 6 * Scale) <= Lit(5, 100)
          /\ Abs(rows[1].C_thin - Lit(1853, 100)) <= Lit(1, 100)
    /\ (prog = "threshold_T0" /\ payload # None /\ args.method = "current"
          /\ args.C_thin = None
          /\ <<args.c, args.kappa, args.R0>>
               = <<AC_configs[2].c, AC_configs[2].kappa, AC_configs[2].R0>>) =>
          LET one == compute_threshold([args EXCEPT !.c = AC_configs[1].c,
                                                   !.kappa = AC_configs[1].kappa,
                                                   !.R0 = AC_configs[1].R0])
          IN  /\ payload[1].threshold.log_T0 < one.threshold.log_T0
              /\ Abs(one.threshold.log_T0 - 6 * Scale) <= Lit(5, 100)
              /\ Abs(one.parameters.C_thin - Lit(1853, 100)) <= Lit(1, 100)

\* analyze_current has computed both configurations
C14_Witness ==
    /\ prog = "analyze_current" /\ pc = "returned" /\ Len(rows) = 2
    /\ <<rows[2].c, rows[2].kappa, rows[2].R0>>
         = <<Lit(35, 100), Lit(8, 10), Lit(10, 100)>>

\* the three-way rule
ThreeWay(margin_percent) ==
    IF margin_percent < 0 THEN "INVALID"
    ELSE IF margin_percent < 20 * Scale THEN "MARGINAL" ELSE "OK"

\* C15: every classification of a margin follows the three-way rule: the
\* status of a Result of compute_metrics, and the line analyze_margin prints.
C15_ThreeWayEverywhere ==
    /\ \A i \in 1..Len(rows) : rows[i].status = ThreeWay(rows[i].margin_percent)
    /\ (prog = "measure_Cthin_star" /\ payload # None) =>
          console[Len(console)]
            = (CASE ThreeWay(payload[1].measurements.margin_percent) = "INVALID"
                      -> "WARNING: Negative margin!"
                 [] ThreeWay(payload[1].measurements.margin_percent) = "MARGINAL"
                      -> "WARNING: Low margin."
                 [] OTHER -> "Status: OK (margin > 20%)")

\* C16: the results dict that analyze_margin returns and saves has a status
\* field for the margin outcome.
C16_StatusInPayload ==
    (prog = "measure_Cthin_star" /\ payload # None) =>
       \/ "status" \in DOMAIN payload[1]
       \/ \E sec \in DOMAIN payload[1] : "status" \in DOMAIN payload[1][sec]

\* C17: for the tuple, exponent and height of a run of analyze_margin, the
\* margin_percent of compute_metrics (the optimizer's constraint) equals the
\* margin_percent analyze_margin computes, so the tuple is feasible for a
\* min_margin exactly when analyze_margin reports at least min_margin.
C17_SameMargin ==
    (prog = "measure_Cthin_star" /\ payload # None) =>
       LET r == compute_metrics(args.c, args.kappa, args.R0,
                                payload[1].parameters.sub_weyl_exp, args.C_right)
           m == payload[1].measurements.margin_percent
       IN  /\ r.margin_percent = m
           /\ \A mm \in GS_MinMargins : GS_Feasible(r, mm) <=> (m >= mm)

\* C18: a method that is not in the exponent table, without --custom_exp on
\* the command line, produces no results.
C18_UnknownMethodRejected ==
    /\ (prog = "threshold_T0" /\ args.method \notin DOMAIN T0_SUB_WEYL_EXPONENTS
          /\ ~args.custom_exp_given) => payload = None
    /\ (prog = "measure_Cthin_star" /\ args.method \notin DOMAIN M_SUB_WEYL_EXPONENTS
          /\ ~args.custom_exp_given) => payload = None

NamedMethods == {"current", "huxley", "bourgain"}

\* C19: the exponent table has exactly current, huxley and bourgain, the same
\* in every module, and optimize_parameters searches exactly these methods.
C19_ThreeNamedMethods ==
    /\ DOMAIN T0_SUB_WEYL_EXPONENTS = NamedMethods
    /\ T0_SUB_WEYL_EXPONENTS = M_SUB_WEYL_EXPONENTS
    /\ T0_SUB_WEYL_EXPONENTS = O_SUB_WEYL_EXPONENTS
    /\ prog = "optimize_parameters" =>
          /\ T0_MethodNames[idx[1] + 1] \in NamedMethods
          /\ DOMAIN best_results \subseteq NamedMethods

\* C20: estimate_average_g_R0 uses 0.5 for toy, 0.58 - 0.08*delta/(delta+0.1)
\* for realistic, 0.65 for conservative; the realistic factor decreases
\* strictly as delta grows; another model name gets the factor of none of
\* the three.
C20_AverageModels ==
    (prog = "estimate_average_g_R0" /\ pc = "returned") =>
       LET scale     == FMul(args.alpha_star, LogT)
           realistic == [d \in {a.delta : a \in EstimateArgs} |->
                           Lit(58, 100) - FDiv(FMul(Lit(8, 100), d), d + Lit(1, 10))]
           factor    == [toy |-> Lit(5, 10), realistic |-> realistic[args.delta],
                         conservative |-> Lit(65, 100)]
       IN  /\ args.model \in DOMAIN factor =>
                ret[1] = FMul(FMul(scale, factor[args.model]), args.delta)
           /\ \A d \in DOMAIN realistic : d > args.delta => realistic[d] < realistic[args.delta]
           /\ args.model \notin DOMAIN factor =>
                \A m \in DOMAIN factor :
                   M_avg_factor(args.delta, args.model) # factor[m]

DerivativeReturned ==
    prog = "estimate_f_prime_over_f_derivative" /\ pc = "returned"

\* C21: estimate_f_prime_over_f_derivative returns 2/sigma^2 when sigma > 1.5
\* and the Stirling estimate plus 1/|t| when sigma < 0.75; for 0.75 <= sigma
\* <= 1.5 the weight (sigma - 0.75)/0.75 lies in [0, 1], and the result is
\* the Stirling-side value at sigma = 0.75 and 2/sigma^2 at sigma = 1.5.
C21_ThreeRegimes ==
    DerivativeReturned =>
        LET sigma == args[1].sigma
            t     == args[1].t
        IN  /\ sigma > Lit(15, 10) => ret[1] = DirichletSide(sigma)
            /\ sigma < Lit(75, 100) => ret[1] = StirlingSide(sigma, t)
            /\ (Lit(75, 100) <= sigma /\ sigma <= Lit(15, 10)) =>
                  /\ 0 <= InterpolationWeight(sigma)
                  /\ InterpolationWeight(sigma) <= Scale
            /\ sigma = Lit(75, 100) => ret[1] = StirlingSide(sigma, t)
            /\ sigma = Lit(15, 10) => ret[1] = DirichletSide(sigma)

\* the refined bounds a finished run of validate_horizontals.py has computed
RefinedBounds ==
    IF args[1].multiple
    THEN {rows[i].envelope[1].refined_bound : i \in DOMAIN rows}
    ELSE IF payload[1].envelope = None THEN {}
         ELSE {payload[1].envelope[1].refined_bound}

\* C22: at every height where refined_bound is computed, a bound < pi/2 is
\* reported as controlled and a bound >= pi/2 is flagged as a WARNING; the
\* run ends normally with its results saved, and the saved conclusion does
\* not say "verified" when the warning applies.
C22_WarningAtEveryHeight ==
    (prog = "validate_horizontals" /\ pc = "done") =>
        /\ exit_code = 0 /\ saved # None
        /\ (\E b \in RefinedBounds : b >= PI \div 2) =>
              /\ "[WARNING] Bound >= pi/2" \in SeqRange(console)
              /\ saved[1].summary.conclusion # "Horizontal bounds verified"
        /\ (\E b \in RefinedBounds : b < PI \div 2) =>
              "[OK] Bound < pi/2: Horizontal contribution controlled"
                  \in SeqRange(console)

\* the keys of the results of compute_horizontal_bound and of compute_C_right's
\* main that hold a parameter or a computed value
ValueKeys ==
    [validate_horizontals |-> {"T", "h", "delta", "method", "envelope", "numerical"},
     compute_C_right |-> {"P", "method", "include_prime_powers", "partial_sum",
                          "tail_bound", "lower_bound", "upper_bound",
                          "interval_width", "numerical_approximation",
                          "high_precision"}]

\* C23: without mpmath, a run that asks for the cross-check (validate_horizontals
\* --method numerical or both, compute_C_right --method mpmath) ends normally,
\* has its envelope or sieve result, has no cross-check value, and its saved
\* payload has a field that says the cross-check did not run.
C23_SkippedCrossCheckFlagged ==
    /\ (prog = "validate_horizontals" /\ pc = "done" /\ ~HAS_MPMATH
          /\ ~args[1].multiple /\ args[1].method \in {"numerical", "both"}) =>
          /\ exit_code = 0
          /\ saved[1].results.envelope # None
          /\ saved[1].results.numerical = None
          /\ \/ DOMAIN saved[1].results # ValueKeys.validate_horizontals
             \/ DOMAIN saved[1].summary # {"method", "conclusion"}
             \/ saved[1].summary.conclusion # "Horizontal bounds verified"
    /\ (prog = "compute_C_right" /\ pc = "done" /\ ~HAS_MPMATH
          /\ method = "mpmath") =>
          /\ exit_code = 0
          /\ saved[1].lower_bound <= saved[1].upper_bound
          /\ saved[1].high_precision = None
          /\ DOMAIN saved[1] # ValueKeys.compute_C_right

\* the pass at idx is the last of its scan (of the method, in optimize_parameters)
LastPass ==
    IF prog = "grid_search"
    THEN idx = <<Len(GS_R0_values) - 1, GridPoints - 1, GridPoints - 1>>
    ELSE idx = <<idx[1], GridPoints - 1, GridPoints - 1, GridPoints - 1>>

\* a pass over an infeasible or invalid tuple leaves the best held as it is
\* and goes on with the next tuple, or ends the scan if it was the last
C24_Step ==
    /\ (prog = "grid_search" /\ pc = "scan"
          /\ ~GS_Feasible(GS_Metrics(idx), min_margin)) =>
          /\ best' = best /\ best_log_T0' = best_log_T0 /\ all_valid' = all_valid
          /\ IF LastPass THEN pc' = "report"
             ELSE pc' = "scan" /\ GS_Rank(idx') = GS_Rank(idx) + 1
    /\ (prog = "optimize_parameters" /\ pc = "scan"
          /\ ~OP_Feasible(OP_Metrics(idx, C_right), min_margin)) =>
          /\ best' = best /\ best_log_T0' = best_log_T0
          /\ IF LastPass THEN pc' = "store"
             ELSE pc' = "scan" /\ OP_Rank(idx') = OP_Rank(idx) + 1

\* a finished scan has passed over every tuple, and holds a feasible tuple of
\* the smallest log_T0 if the grid has a feasible tuple
C24_WholeGrid ==
    /\ (prog = "grid_search" /\ pc \in {"report", "returned"}) =>
          LET F == {i \in GS_Idx : GS_Feasible(GS_Metrics(i), min_margin)}
          IN  /\ LastPass
              /\ Len(all_valid) = Cardinality(F)
              /\ F # {} =>
                    /\ best # None
                    /\ \E b \in F : GS_Metrics(b) = best[1]
                    /\ \A i \in F : best_log_T0 <= GS_Metrics(i).log_T0
    /\ (prog = "optimize_parameters" /\ pc = "store") =>
          LET F == {i \in OP_Idx(idx[1]) :
                       OP_Feasible(OP_Metrics(i, C_right), min_margin)}
          IN  /\ LastPass
              /\ F # {} =>
                    /\ best # None
                    /\ \E b \in F :
                          <<OP_Tuple(b).c, OP_Tuple(b).kappa, OP_Tuple(b).R0>> = best[1]
                    /\ \A i \in F : best_log_T0 <= OP_Metrics(i, C_right).log_T0

C25_DecaysWithHeight ==
    (prog = "validate_horizontals" /\ args[1].multiple
       /\ Len(rows) = Len(T_values)) =>
       /\ rows[3].T = Height(12) /\ rows[5].T = Height(14)
       /\ rows[3].envelope[1].refined_bound > rows[5].envelope[1].refined_bound

\* the commands of the runner that runs
Listed == IF prog = "smoke" THEN cmds ELSE scripts

\* C26: a runner starts the listed commands one by one in the order of the
\* list, each once, whatever the earlier ones returned, and has started all of
\* them when it ends; smoke.py exits with 0 exactly when every command
\* returned 0, and the summary of run_all says for each script, in order,
\* whether it returned 0.
C26_RunnersRunEverything ==
    (prog \in {"smoke", "run_all"}) =>
        /\ Len(executed) <= Len(Listed)
        /\ \A i \in 1..Len(executed) : executed[i].cmd = Listed[i]
        /\ pc = "done" => Len(executed) = Len(Listed)
        /\ (prog = "smoke" /\ pc = "done") =>
              (exit_code = 0 <=> \A i \in 1..Len(executed) : executed[i].rc = 0)
        /\ (prog = "run_all" /\ pc = "done") =>
              /\ Len(saved[1]) = Len(scripts)
              /\ \A i \in 1..Len(scripts) :
                    saved[1][i] = <<scripts[i], IF executed[i].rc = 0
                                                THEN "SUCCESS" ELSE "FAILED">>

\* smoke.py has ended with status 1 after a run in which the first command
\* failed and the last one returned 0
C26_Witness ==
    /\ prog = "smoke" /\ pc = "done" /\ exit_code = 1
    /\ Len(executed) = Len(cmds)
    /\ executed[1].rc # 0 /\ executed[Len(cmds)].rc = 0

\* a run of threshold_T0.py with c > 0, kappa > 0 and C_right + kappa*C_thin > 0
\* has computed its results
C27_Pre ==
    /\ prog = "threshold_T0" /\ payload # None
    /\ args.c > 0 /\ args.kappa > 0
    /\ args.C_right + FMul(args.kappa, T0_C_thin(args)) > 0

Rounding == Lit(1, 10000)

C28_KappaAlone ==
    \A im \in OP_Methods : \A i \in OP_Idx(im) :
        OP_Feasible(OP_Metrics(i, C_right), min_margin)
          <=> OP_Feasible(OP_Metrics(<<0, 0, i[3], 0>>, C_right), min_margin)

\* every tuple is feasible, and the tuple retained for each method has the
\* smallest log_T0 of all tuples
C28_UnconstrainedMinimizer ==
    \A im \in OP_Methods :
        LET name == T0_MethodNames[im + 1]
        IN  /\ \A i \in OP_Idx(im) : OP_Feasible(OP_Metrics(i, C_right), min_margin)
            /\ name \in DOMAIN best_results
            /\ \A i \in OP_Idx(im) :
                  best_results[name].log_T0 <= OP_Metrics(i, C_right).log_T0

\* the tuple retained for each method is the smallest c, the smallest kappa
\* and the largest R0 of the grid
C28_Corner ==
    \A name \in DOMAIN best_results :
        /\ best_results[name].c = OP_c_values[0]
        /\ best_results[name].kappa = OP_kappa_values[0]
        /\ best_results[name].R0 = OP_R0_values[GridPoints - 1]

\* C28 as stated: feasibility depends on kappa alone; with min_margin = 0.25
\* every tuple is feasible and the tuple selected for each method is the
\* unconstrained minimizer of log_T0, which is (smallest c, smallest kappa,
\* largest R0).
C28_AsStated ==
    (prog = "optimize_parameters" /\ pc \in {"display", "returned"}) =>
        /\ C28_KappaAlone
        /\ min_margin = Lit(25, 100) =>
              C28_UnconstrainedMinimizer /\ C28_Corner

\* C28, amended: the same, the minimizer being (smallest c, smallest kappa,
\* largest R0) when C_right >= 0.
C28_CornerForPositiveC_right ==
    (prog = "optimize_parameters" /\ pc \in {"display", "returned"}) =>
        /\ C28_KappaAlone
        /\ min_margin = Lit(25, 100) =>
              /\ C28_UnconstrainedMinimizer
              /\ C_right >= 0 => C28_Corner

\* optimize_parameters has returned from a run with min_margin = 0.25 and the
\* default C_right, with a best tuple for each of the methods
C28_Witness ==
    /\ prog = "optimize_parameters" /\ pc = "returned"
    /\ min_margin = Lit(25, 100) /\ C_right = O_C_right
    /\ DOMAIN best_results = SeqRange(T0_MethodNames)

\* all_valid[:5]
Top5 == SubSeq(all_valid, 1, IF Len(all_valid) < 5 THEN Len(all_valid) ELSE 5)

\* C29: when grid_search has found a best candidate, the list it prints as
\* "Top 5" is in the order of log_T0, its first entry is the best candidate
\* itself (the same c, kappa and R0), and each of its entries has
\* margin_percent >= min_margin.
C29_BestHeadsTop5 ==
    (prog = "grid_search" /\ pc = "returned" /\ best # None) =>
        /\ Top5 # << >>
        /\ Top5[1].c = best[1].c /\ Top5[1].kappa = best[1].kappa
        /\ Top5[1].R0 = best[1].R0
        /\ \A i \in 1..Len(Top5) : Top5[i].margin_percent >= min_margin
        /\ \A i \in 1..(Len(Top5) - 1) : Top5[i].log_T0 <= Top5[i + 1].log_T0

\* grid_search has returned five or more feasible candidates, and the best is
\* not the first feasible tuple of the scan
C29_Witness ==
    /\ prog = "grid_search" /\ pc = "returned" /\ best # None
    /\ Len(all_valid) >= 5
    /\ \E b \in GS_Idx :
          /\ GS_Metrics(b) = best[1]
          /\ \E i \in GS_Idx : /\ GS_Rank(i) < GS_Rank(b)
                               /\ GS_Feasible(GS_Metrics(i), min_margin)

\* the R0 that the k-th result of compare_methods was computed with
CM_R0_of(k) == CM_R0_values[((k - 1) % Len(CM_R0_values)) + 1]

\* C30: each line of the summary table of compare_methods shows the R0 its
\* C_thin* and log T0 were computed with, and the optimal R0 printed for a
\* method is the R0 of the result of that method with the smallest log_T0.
C30_RowsShowTheirR0 ==
    (prog = "compare_methods" /\ pc = "returned") =>
        /\ \A k \in 1..Len(table.summary) :
              /\ table.summary[k].R0 = CM_R0_of(k)
              /\ table.summary[k].log_T0 =
                    CM_result([method |-> table.summary[k].method,
                               R0 |-> table.summary[k].R0]).log_T0
        /\ \A i \in 1..Len(table.optimal) :
              \E k \in 1..Len(rows) :
                 /\ rows[k].method = table.optimal[i].method
                 /\ CM_R0_of(k) = table.optimal[i].R0
                 /\ rows[k].log_T0 = table.optimal[i].log_T0
                 /\ \A j \in 1..Len(rows) :
                       rows[j].method = rows[k].method
                         => rows[k].log_T0 <= rows[j].log_T0

====
